---- MODULE Spec2Model ----
(***************************************************************************)
(* A model of the aer_version crate: the Chocolatey version type           *)
(* (ChocoVersion), its parser, its pre-release extractor, its formatter,   *)
(* the fix-version mutator, the conversions from and to semantic versions  *)
(* and the Versions union.                                                 *)
(*                                                                         *)
(* Representation.  A Rust string is a sequence of one-character strings   *)
(* (<<"1", ".", "0">> is "1.0").  A u8 is an integer 0..255.  A u32 or a   *)
(* u64 is a canonical decimal numeral: a non-empty sequence of digit       *)
(* characters without leading zeros (<<"5","5">> is 55), because the       *)
(* values of these widths do not fit the integers of the model checker.   *)
(* An Option is None or Some(x).                                           *)
(***************************************************************************)
EXTENDS Integers, Sequences, FiniteSets, TLC

VARIABLES
    today,      \* the date chrono::Local::today() returns, as YYYYMMDD
    ver,        \* the ChocoVersion at hand: None before construction
    old,        \* the ChocoVersion before the last mutator call, else None
    op,         \* the name of the last operation
    input,      \* the string given to the last parse
    err,        \* the error the last operation returned ("" when it returned Ok)
    sem,        \* the SemVersion at hand: None when there is none
    versions,   \* the tag of the Versions value at hand: "SemVer", "Choco" or "None"
    out,        \* the text the last Display call wrote: None when there is none
    list,       \* a Vec<ChocoVersion>: the versions that are compared and sorted
    answer      \* the arguments and the result of the last cmp or ==, else None

vars == <<today, ver, old, op, input, err, sem, versions, out, list, answer>>

-----------------------------------------------------------------------------
(* Option<T> *)

None == [some |-> FALSE]

\* The one element of a singleton set.  {F(x) : x \in {e}} evaluates e once
\* and hands its value to F, however often F reads x.
Only(S) == CHOOSE x \in S : TRUE

Some(x) == [some |-> TRUE, val |-> x]

-----------------------------------------------------------------------------
(* Characters and numerals *)

Digit == {"0", "1", "2", "3", "4", "5", "6", "7", "8", "9"}

\* char::is_digit(10)
is_digit(ch) == ch \in Digit

DigitVal(ch) ==
    CASE ch = "0" -> 0 [] ch = "1" -> 1 [] ch = "2" -> 2 [] ch = "3" -> 3
      [] ch = "4" -> 4 [] ch = "5" -> 5 [] ch = "6" -> 6 [] ch = "7" -> 7
      [] ch = "8" -> 8 [] ch = "9" -> 9

DigitChar(n) ==
    CASE n = 0 -> "0" [] n = 1 -> "1" [] n = 2 -> "2" [] n = 3 -> "3"
      [] n = 4 -> "4" [] n = 5 -> "5" [] n = 6 -> "6" [] n = 7 -> "7"
      [] n = 8 -> "8" [] n = 9 -> "9"

\* The numeral of a digit string: its leading zeros dropped, one digit kept.
RECURSIVE StripZeros(_)
StripZeros(ds) ==
    IF Len(ds) > 1 /\ Head(ds) = "0" THEN StripZeros(Tail(ds)) ELSE ds

\* Lexicographic "less than" on digit strings of the same length.
RECURSIVE DigitsLess(_, _)
DigitsLess(a, b) ==
    IF a = <<>> THEN FALSE
    ELSE IF Head(a) # Head(b) THEN DigitVal(Head(a)) < DigitVal(Head(b))
    ELSE DigitsLess(Tail(a), Tail(b))

\* a < b on numerals
DecLess(a, b) ==
    \/ Len(a) < Len(b)
    \/ Len(a) = Len(b) /\ DigitsLess(a, b)

\* The numeral of a natural number of the model checker's range.
RECURSIVE NatToDec(_)
NatToDec(n) ==
    IF n < 10 THEN <<DigitChar(n)>>
    ELSE Append(NatToDec(n \div 10), DigitChar(n % 10))

\* The natural number of the first k digits of a numeral known to be small.
RECURSIVE DecPrefixToNat(_, _)
DecPrefixToNat(d, k) ==
    IF k = 0 THEN 0 ELSE 10 * DecPrefixToNat(d, k - 1) + DigitVal(d[k])

DecToNat(d) == DecPrefixToNat(d, Len(d))

U8_MAX == 255

U32_MAX == <<"4", "2", "9", "4", "9", "6", "7", "2", "9", "5">>

U64_MAX == <<"1", "8", "4", "4", "6", "7", "4", "4", "0", "7",
             "3", "7", "0", "9", "5", "5", "1", "6", "1", "5">>

\* str::parse::<uN>() on a string of decimal digits: the numeral, or the
\* kind of ParseIntError (Empty, PosOverflow).
ParseUnsigned(s, max) ==
    IF s = <<>> THEN [ok |-> FALSE, kind |-> "Empty"]
    ELSE IF DecLess(max, StripZeros(s)) THEN [ok |-> FALSE, kind |-> "PosOverflow"]
    ELSE [ok |-> TRUE, val |-> StripZeros(s)]

\* A parse into u8 that keeps the low eight bits of a number too large
\* (of Rust's wrapping arithmetic) instead of failing.
parse_u8_wrapping(s) ==
    IF s = <<>> THEN [ok |-> FALSE, kind |-> "Empty"]
    ELSE IF Len(StripZeros(s)) > 6 THEN [ok |-> TRUE, val |-> 0]
    ELSE [ok |-> TRUE, val |-> DecToNat(StripZeros(s)) % (U8_MAX + 1)]

parse_u8(s) ==
    LET r == ParseUnsigned(s, NatToDec(U8_MAX))
    IN  IF r.ok THEN [ok |-> TRUE, val |-> DecToNat(r.val)] ELSE r

parse_u32(s) == ParseUnsigned(s, U32_MAX)

parse_u64(s) == ParseUnsigned(s, U64_MAX)

\* format!("{:04}", n): at least four digits, zeros in front.
RECURSIVE Pad4(_)
Pad4(d) == IF Len(d) < 4 THEN Pad4(<<"0">> \o d) ELSE d

-----------------------------------------------------------------------------
(* semver::Identifier *)

Numeric(n) == [tag |-> "Numeric", val |-> n]

AlphaNumeric(s) == [tag |-> "AlphaNumeric", val |-> s]

\* Display for Identifier: the number in decimal, or the text.
IdToString(id) == id.val

NORMAL_PRE == <<"u", "n", "s", "t", "a", "b", "l", "e">>

SelectDigits(s) == SelectSeq(s, LAMBDA ch : is_digit(ch))

SelectNonDigits(s) == SelectSeq(s, LAMBDA ch : ~is_digit(ch))

AllDigits(s) == \A i \in 1..Len(s) : is_digit(s[i])

AnyNonDigit(s) == \E i \in 1..Len(s) : ~is_digit(s[i])

get_identifier(value) ==
    IF value = <<>> THEN None
    ELSE IF AllDigits(value) /\ parse_u64(value).ok
    THEN Some(Numeric(parse_u64(value).val))
    ELSE LET vals == SelectNonDigits(value)
             nums == SelectDigits(value)
         IN  IF nums = <<>> THEN Some(AlphaNumeric(vals))
             ELSE IF parse_u32(nums).ok
             THEN Some(AlphaNumeric(vals \o Pad4(parse_u32(nums).val)))
             ELSE Some(AlphaNumeric(vals \o nums))

\* result.push(res) for an Option: nothing is pushed for None.
PushSome(result, o) == IF o.some THEN Append(result, o.val) ELSE result

\* take_while left out: the whole suffix is read.
TakeAll(s) == s

\* The characters before the first '+': chars().take_while(|ch| *ch != '+').
RECURSIVE TakeUntilPlus(_)
TakeUntilPlus(s) ==
    IF s = <<>> \/ Head(s) = "+" THEN <<>>
    ELSE <<Head(s)>> \o TakeUntilPlus(Tail(s))

\* One turn of the loop without the two branches that drop the marker when a
\* label arrives.
ExtractStepNoPromotion(st, ch) ==
    IF ch = "-" \/ ch = "."
    THEN LET c == get_identifier(st.current)
             n == get_identifier(st.next)
         IN  [result  |-> PushSome(PushSome(st.result, c), n),
              current |-> IF c.some THEN <<>> ELSE st.current,
              next    |-> IF n.some THEN <<>> ELSE st.next]
    ELSE LET st2 ==
               IF is_digit(ch)
               THEN IF st.result = <<>> /\ st.current = <<>>
                    THEN [st EXCEPT !.result = <<AlphaNumeric(NORMAL_PRE)>>]
                    ELSE IF AnyNonDigit(st.current)
                    THEN [st EXCEPT !.result = PushSome(st.result, get_identifier(st.current)),
                                    !.current = <<>>]
                    ELSE st
               ELSE st
         IN  [st2 EXCEPT !.current = Append(st2.current, ch)]

\* One turn of the loop that does not end the label when a digit follows it.
ExtractStepNoSplit(st, ch) ==
    IF ch = "-" \/ ch = "."
    THEN LET c == get_identifier(st.current)
             n == get_identifier(st.next)
         IN  [result  |-> PushSome(PushSome(st.result, c), n),
              current |-> IF c.some THEN <<>> ELSE st.current,
              next    |-> IF n.some THEN <<>> ELSE st.next]
    ELSE LET st2 ==
               IF is_digit(ch)
               THEN IF st.result = <<>> /\ st.current = <<>>
                    THEN [st EXCEPT !.result = <<AlphaNumeric(NORMAL_PRE)>>]
                    ELSE st
               ELSE IF /\ st.current = <<>>
                       /\ Len(st.result) > 1
                       /\ Head(st.result) = AlphaNumeric(NORMAL_PRE)
               THEN [st EXCEPT !.result = SubSeq(st.result, 2, Len(st.result) - 1),
                               !.next = IdToString(st.result[Len(st.result)])]
               ELSE IF /\ st.current # <<>>
                       /\ st.result # <<>>
                       /\ Head(st.result) = AlphaNumeric(NORMAL_PRE)
               THEN [st EXCEPT !.result = Tail(st.result),
                               !.next = st.current,
                               !.current = <<>>]
               ELSE st
         IN  [st2 EXCEPT !.current = Append(st2.current, ch)]

\* One turn of the loop of extract_prerelease on the character ch; st holds
\* the locals result, current and next.
ExtractStep(st, ch) ==
    IF ch = "-" \/ ch = "."
    THEN LET c == get_identifier(st.current)
             n == get_identifier(st.next)
         IN  [result  |-> PushSome(PushSome(st.result, c), n),
              current |-> IF c.some THEN <<>> ELSE st.current,
              next    |-> IF n.some THEN <<>> ELSE st.next]
    ELSE LET st2 ==
               IF is_digit(ch)
               THEN IF st.result = <<>> /\ st.current = <<>>
                    THEN [st EXCEPT !.result = <<AlphaNumeric(NORMAL_PRE)>>]
                    ELSE IF AnyNonDigit(st.current)
                    THEN [st EXCEPT !.result = PushSome(st.result, get_identifier(st.current)),
                                    !.current = <<>>]
                    ELSE st
               ELSE IF /\ st.current = <<>>
                       /\ Len(st.result) > 1
                       /\ Head(st.result) = AlphaNumeric(NORMAL_PRE)
               THEN [st EXCEPT !.result = SubSeq(st.result, 2, Len(st.result) - 1),
                               !.next = IdToString(st.result[Len(st.result)])]
               ELSE IF /\ st.current # <<>>
                       /\ st.result # <<>>
                       /\ Head(st.result) = AlphaNumeric(NORMAL_PRE)
               THEN [st EXCEPT !.result = Tail(st.result),
                               !.next = st.current,
                               !.current = <<>>]
               ELSE st
         IN  [st2 EXCEPT !.current = Append(st2.current, ch)]

RECURSIVE ExtractLoop(_, _)
ExtractLoop(st, s) ==
    IF s = <<>> THEN st
    ELSE Only({ExtractLoop(st2, Tail(s)) : st2 \in {ExtractStep(st, Head(s))}})

extract_prerelease(val) ==
    Only({PushSome(PushSome(st.result, get_identifier(st.current)),
                   get_identifier(st.next)) :
          st \in {ExtractLoop([result |-> <<>>, current |-> <<>>, next |-> <<>>],
                              TakeUntilPlus(val))}})

-----------------------------------------------------------------------------
(* ChocoVersion *)

ChocoVersion(major, minor, patch, build, pre) ==
    [major |-> major, minor |-> minor, patch |-> patch, build |-> build,
     pre_release |-> pre]

new(major, minor) == ChocoVersion(major, minor, None, None, <<>>)

set_patch(v, patch) == [v EXCEPT !.patch = Some(patch)]

\* set_build without the default for an unset patch
set_build_keeps_patch(v, build) == [v EXCEPT !.build = Some(build)]

\* set_build that also empties the pre-release.
set_build_drops_prerelease(v, build) ==
    [v EXCEPT !.patch = IF v.patch.some THEN v.patch ELSE Some(0),
              !.build = Some(build),
              !.pre_release = <<>>]


set_build(v, build) ==
    [v EXCEPT !.patch = IF v.patch.some THEN v.patch ELSE Some(0),
              !.build = Some(build)]

set_prerelease(v, pre) == [v EXCEPT !.pre_release = pre]

with_patch(major, minor, patch) == set_patch(new(major, minor), patch)

with_build(major, minor, patch, build) ==
    set_build(with_patch(major, minor, patch), build)

Ok(v) == [ok |-> TRUE, val |-> v]

Err(e) == [ok |-> FALSE, err |-> e]

ERR_EMPTY == "There is no version string to parse"

ERR_NO_DIGIT == "The version string do not start with a number"

ERR_TOO_MANY ==
    "There were additional numeric characters after the first 4 parts of the version"

\* Display for std::num::ParseIntError
ParseIntError(kind) ==
    IF kind = "Empty" THEN "cannot parse integer from empty string"
    ELSE "number too large to fit in target type"

\* The match on i without its last arm: a fifth numeric part is dropped
\* instead of refused.
AssignPartNoLimit(st, ver_str) ==
    CASE st.i = 0 ->
           LET r == parse_u8(ver_str)
           IN  IF r.ok THEN Ok([st EXCEPT !.major = r.val])
               ELSE Err(ParseIntError(r.kind))
      [] st.i = 1 ->
           LET r == parse_u8(ver_str)
           IN  IF r.ok THEN Ok([st EXCEPT !.minor = r.val])
               ELSE Err(ParseIntError(r.kind))
      [] st.i = 2 ->
           LET r == parse_u8(ver_str)
           IN  IF r.ok THEN Ok([st EXCEPT !.patch = Some(r.val)])
               ELSE Err(ParseIntError(r.kind))
      [] st.i = 3 ->
           LET r == parse_u32(ver_str)
           IN  IF r.ok THEN Ok([st EXCEPT !.build = Some(r.val)])
               ELSE Err(ParseIntError(r.kind))
      [] OTHER -> Ok(st)

\* The match on i with the arms of minor and patch exchanged.
AssignPartSwapped(st, ver_str) ==
    CASE st.i = 0 ->
           LET r == parse_u8(ver_str)
           IN  IF r.ok THEN Ok([st EXCEPT !.major = r.val])
               ELSE Err(ParseIntError(r.kind))
      [] st.i = 1 ->
           LET r == parse_u8(ver_str)
           IN  IF r.ok THEN Ok([st EXCEPT !.patch = Some(r.val)])
               ELSE Err(ParseIntError(r.kind))
      [] st.i = 2 ->
           LET r == parse_u8(ver_str)
           IN  IF r.ok THEN Ok([st EXCEPT !.minor = r.val])
               ELSE Err(ParseIntError(r.kind))
      [] st.i = 3 ->
           LET r == parse_u32(ver_str)
           IN  IF r.ok THEN Ok([st EXCEPT !.build = Some(r.val)])
               ELSE Err(ParseIntError(r.kind))
      [] OTHER -> Err(ERR_TOO_MANY)

\* The match on i in ChocoVersion::parse: ver_str becomes the i-th numeric
\* part of the locals st, or the parse fails.
AssignPart(st, ver_str) ==
    CASE st.i = 0 ->
           LET r == parse_u8(ver_str)
           IN  IF r.ok THEN Ok([st EXCEPT !.major = r.val])
               ELSE Err(ParseIntError(r.kind))
      [] st.i = 1 ->
           LET r == parse_u8(ver_str)
           IN  IF r.ok THEN Ok([st EXCEPT !.minor = r.val])
               ELSE Err(ParseIntError(r.kind))
      [] st.i = 2 ->
           LET r == parse_u8(ver_str)
           IN  IF r.ok THEN Ok([st EXCEPT !.patch = Some(r.val)])
               ELSE Err(ParseIntError(r.kind))
      [] st.i = 3 ->
           LET r == parse_u32(ver_str)
           IN  IF r.ok THEN Ok([st EXCEPT !.build = Some(r.val)])
               ELSE Err(ParseIntError(r.kind))
      [] OTHER -> Err(ERR_TOO_MANY)

\* The for loop of ChocoVersion::parse over the characters s that are left.
RECURSIVE ParseLoop(_, _)
ParseLoop(st, s) ==
    IF s = <<>> THEN Ok(st)
    ELSE IF is_digit(Head(s))
    THEN Only({ParseLoop(st2, Tail(s)) :
               st2 \in {[st EXCEPT !.ver_str = Append(st.ver_str, Head(s))]}})
    ELSE IF Head(s) = "."
    THEN Only({IF r.ok
               THEN Only({ParseLoop(st2, Tail(s)) :
                          st2 \in {[r.val EXCEPT !.i = st.i + 1, !.ver_str = <<>>]}})
               ELSE r :
               r \in {AssignPart(st, st.ver_str)}})
    ELSE Ok(st)

\* chars().skip_while(|ch| ch.is_digit(10) || *ch == '.')
RECURSIVE SkipNumeric(_)
SkipNumeric(s) ==
    IF s # <<>> /\ (is_digit(Head(s)) \/ Head(s) = ".")
    THEN SkipNumeric(Tail(s)) ELSE s

\* ChocoVersion::parse
parse(val) ==
    IF val = <<>> THEN Err(ERR_EMPTY)
    ELSE IF ~is_digit(Head(val)) THEN Err(ERR_NO_DIGIT)
    ELSE LET start == [major |-> 0, minor |-> 0, patch |-> None, build |-> None,
                       i |-> 0, ver_str |-> <<>>]
             Last(looped) == IF looped.ok /\ looped.val.ver_str # <<>>
                             THEN AssignPart(looped.val, looped.val.ver_str)
                             ELSE looped
         IN  Only({IF last.ok
                   THEN Ok(ChocoVersion(last.val.major, last.val.minor,
                                        last.val.patch, last.val.build,
                                        extract_prerelease(SkipNumeric(val))))
                   ELSE last :
                   last \in {Last(looped) : looped \in {ParseLoop(start, val)}}})

\* FixVersion::add_fix for ChocoVersion, on the day date
THRESHOLD == 20070101

\* add_fix with the comparison the other way round: a build below the
\* threshold is stamped, a build at or above it is kept
add_fix_below(v, date) ==
    IF ~v.build.some \/ DecLess(v.build.val, NatToDec(THRESHOLD))
    THEN Ok(set_build(v, date))
    ELSE Ok(v)

\* add_fix that stamps whatever the build is
add_fix_always(v, date) == Ok(set_build(v, date))

\* add_fix that writes the build field itself instead of calling set_build
add_fix_direct(v, date) ==
    IF ~v.build.some \/ ~DecLess(v.build.val, NatToDec(THRESHOLD))
    THEN Ok([v EXCEPT !.build = Some(date)])
    ELSE Ok(v)

add_fix(v, date) ==
    LET b == IF v.build.some THEN v.build.val ELSE NatToDec(THRESHOLD)
    IN  IF ~DecLess(b, NatToDec(THRESHOLD))
        THEN Only({IF num_fix.ok THEN Ok(set_build(v, num_fix.val))
                   ELSE Err(ParseIntError(num_fix.kind)) :
                   num_fix \in {parse_u32(date)}})
        ELSE Ok(v)

\* The identifiers written with a "-" before every one of them.
RECURSIVE FormatPreAlwaysDash(_, _)
FormatPreAlwaysDash(pre, prev_alpha) ==
    IF pre = <<>> THEN <<>>
    ELSE IF Head(pre).tag = "Numeric"
    THEN <<"-">> \o Pad4(Head(pre).val) \o FormatPreAlwaysDash(Tail(pre), FALSE)
    ELSE <<"-">> \o Head(pre).val \o FormatPreAlwaysDash(Tail(pre), TRUE)

\* The pre-release identifiers as Display for ChocoVersion writes them.
RECURSIVE FormatPre(_, _)
FormatPre(pre, prev_alpha) ==
    IF pre = <<>> THEN <<>>
    ELSE IF Head(pre).tag = "Numeric"
    THEN IF prev_alpha
         THEN Pad4(Head(pre).val) \o FormatPre(Tail(pre), FALSE)
         ELSE <<"-">> \o Pad4(Head(pre).val) \o FormatPre(Tail(pre), prev_alpha)
    ELSE <<"-">> \o Head(pre).val \o FormatPre(Tail(pre), TRUE)

\* Display that leaves out a patch of 0.
fmt_without_zero_patch(v) ==
    NatToDec(v.major) \o <<".">> \o NatToDec(v.minor)
      \o (IF v.patch.some /\ v.patch.val # 0
          THEN <<".">> \o NatToDec(v.patch.val) ELSE <<>>)
      \o (IF v.build.some THEN <<".">> \o v.build.val ELSE <<>>)
      \o FormatPre(v.pre_release, FALSE)

\* Display for ChocoVersion
fmt(v) ==
    NatToDec(v.major) \o <<".">> \o NatToDec(v.minor)
      \o (IF v.patch.some THEN <<".">> \o NatToDec(v.patch.val) ELSE <<>>)
      \o (IF v.build.some THEN <<".">> \o v.build.val ELSE <<>>)
      \o FormatPre(v.pre_release, FALSE)

-----------------------------------------------------------------------------
(* SemVersion: semver::Version, as the semver crate parses it *)

Letter == {"a", "b", "c", "d", "e", "f", "g", "h", "i", "j", "k", "l", "m",
           "n", "o", "p", "q", "r", "s", "t", "u", "v", "w", "x", "y", "z"}

IsComponentChar(ch) == is_digit(ch) \/ ch \in Letter

\* The longest prefix of s made of digits and letters.
RECURSIVE ComponentRun(_)
ComponentRun(s) ==
    IF s # <<>> /\ IsComponentChar(Head(s))
    THEN <<Head(s)>> \o ComponentRun(Tail(s)) ELSE <<>>

\* What follows the longest prefix of s made of digits and letters.
RECURSIVE SkipComponent(_)
SkipComponent(s) ==
    IF s # <<>> /\ IsComponentChar(Head(s)) THEN SkipComponent(Tail(s)) ELSE s

\* The lexer's component: a number without a leading zero that fits a u64 is
\* a Numeric token, anything else an AlphaNumeric one.
Component(text) ==
    IF text = <<"0">> THEN Numeric(<<"0">>)
    ELSE IF Head(text) # "0" /\ AllDigits(text) /\ parse_u64(text).ok
    THEN Numeric(parse_u64(text).val)
    ELSE AlphaNumeric(text)

Punct(tag) == [tag |-> tag, val |-> <<>>]

\* The tokens of s; a character the lexer does not know ends them with an
\* Error token that holds the character.
RECURSIVE Lex(_)
Lex(s) ==
    IF s = <<>> THEN <<>>
    ELSE IF IsComponentChar(Head(s))
    THEN Only({<<Component(run)>> \o Lex(rest) :
               <<run, rest>> \in {<<ComponentRun(s), SkipComponent(s)>>}})
    ELSE IF Head(s) = "." THEN <<Punct("Dot")>> \o Lex(Tail(s))
    ELSE IF Head(s) = "-" THEN <<Punct("Hyphen")>> \o Lex(Tail(s))
    ELSE IF Head(s) = "+" THEN <<Punct("Plus")>> \o Lex(Tail(s))
    ELSE <<[tag |-> "Error", val |-> <<Head(s)>>]>>

TagAt(toks, i) == IF i <= Len(toks) THEN toks[i].tag ELSE "End"

\* The characters of s as one string.
RECURSIVE ToStr(_)
ToStr(s) == IF s = <<>> THEN "" ELSE Head(s) \o ToStr(Tail(s))

\* {:?} of a token
DebugToken(tok) ==
    IF tok.tag = "Numeric" THEN "Numeric(" \o ToStr(tok.val) \o ")"
    ELSE IF tok.tag = "AlphaNumeric"
    THEN "AlphaNumeric(\"" \o ToStr(tok.val) \o "\")"
    ELSE tok.tag

\* {:?} of a vector of tokens, without the brackets
RECURSIVE DebugTokens(_)
DebugTokens(toks) ==
    IF toks = <<>> THEN ""
    ELSE IF Len(toks) = 1 THEN DebugToken(toks[1])
    ELSE DebugToken(toks[1]) \o ", " \o DebugTokens(Tail(toks))

\* Display of the parser's errors, the text SemVerError::ParseError carries.
UNEXPECTED_END == "expected more input"

UnexpectedToken(tok) == "encountered unexpected token: " \o DebugToken(tok)

LexerError(ch) == "lexer error: UnexpectedChar('" \o ToStr(ch) \o "')"

MoreInput(toks) == "expected end of input, but got: [" \o DebugTokens(toks) \o "]"

\* Parser::pop at token i: the lexer reads token i + 1 first and its error
\* comes before anything else; then token i, or the end of the input.
Pop(toks, i) ==
    IF TagAt(toks, i + 1) = "Error" THEN Err(LexerError(toks[i + 1].val))
    ELSE IF i > Len(toks) THEN Err(UNEXPECTED_END)
    ELSE Ok(toks[i])

\* A pop that must give a token with one of the tags.
Expect(toks, i, tags) ==
    Only({IF ~p.ok THEN p
          ELSE IF p.val.tag \notin tags THEN Err(UnexpectedToken(p.val))
          ELSE p :
          p \in {Pop(toks, i)}})

\* Parser::identifier at token i: an identifier, joined by "-" with the
\* identifiers that hyphens attach to it.
RECURSIVE SemIdentifier(_, _)
SemIdentifier(toks, i) ==
    Only({IF ~p.ok THEN p
          ELSE IF TagAt(toks, i + 1) = "Hyphen"
          THEN Only({IF ~q.ok THEN q
                     ELSE Only({IF rest.ok
                                THEN [ok |-> TRUE,
                                      id |-> AlphaNumeric(IdToString(toks[i])
                                               \o <<"-">> \o IdToString(rest.id)),
                                      i |-> rest.i]
                                ELSE rest :
                                rest \in {SemIdentifier(toks, i + 2)}}) :
                     q \in {Pop(toks, i + 1)}})
          ELSE [ok |-> TRUE, id |-> toks[i], i |-> i + 1] :
          p \in {Expect(toks, i, {"Numeric", "AlphaNumeric"})}})

\* Parser::parts at token i: identifiers separated by dots.
RECURSIVE SemParts(_, _)
SemParts(toks, i) ==
    Only({IF ~first.ok THEN first
          ELSE IF TagAt(toks, first.i) = "Dot"
          THEN Only({IF ~q.ok THEN q
                     ELSE Only({IF rest.ok
                                THEN [ok |-> TRUE, ids |-> <<first.id>> \o rest.ids,
                                      i |-> rest.i]
                                ELSE rest :
                                rest \in {SemParts(toks, first.i + 1)}}) :
                     q \in {Pop(toks, first.i)}})
          ELSE [ok |-> TRUE, ids |-> <<first.id>>, i |-> first.i] :
          first \in {SemIdentifier(toks, i)}})

\* Parser::pre and Parser::plus_build_metadata at token i: nothing unless
\* the token is the mark, else the mark is popped and the parts follow.
SemSection(toks, i, mark) ==
    IF TagAt(toks, i) # mark THEN [ok |-> TRUE, ids |-> <<>>, i |-> i]
    ELSE Only({IF ~q.ok THEN q ELSE SemParts(toks, i + 1) :
               q \in {Pop(toks, i)}})

SemVer(major, minor, patch, pre, build) ==
    [major |-> major, minor |-> minor, patch |-> patch, pre |-> pre,
     build |-> build]

\* SemVersion::parse: major.minor.patch, then "-" and the pre-release
\* identifiers, then "+" and the build metadata, then the end of the input.
\* The error is the first one met: that of Parser::new on the first token,
\* of the five pops of the numeric part, of the two sections, or the input
\* left over.
SemVersionTokens(toks) ==
    LET want(i) == IF i \in {2, 4} THEN {"Dot"} ELSE {"Numeric"}
        bad == {i \in 1..5 : ~Expect(toks, i, want(i)).ok}
    IN  IF TagAt(toks, 1) = "Error" THEN Err(LexerError(toks[1].val))
        ELSE IF bad # {}
        THEN Expect(toks, CHOOSE i \in bad : \A j \in bad : i <= j,
                    want(CHOOSE i \in bad : \A j \in bad : i <= j))
        ELSE Only({IF ~pre.ok THEN pre
                   ELSE Only({IF ~build.ok THEN build
                              ELSE IF TagAt(toks, build.i) = "End"
                              THEN Ok(SemVer(toks[1].val, toks[3].val, toks[5].val,
                                             pre.ids, build.ids))
                              ELSE IF toks[Len(toks)].tag = "Error"
                              THEN Err(LexerError(toks[Len(toks)].val))
                              ELSE Err(MoreInput(SubSeq(toks, build.i, Len(toks)))) :
                              build \in {SemSection(toks, pre.i, "Plus")}}) :
                   pre \in {SemSection(toks, 6, "Hyphen")}})

SemVersion_parse(val) == Only({SemVersionTokens(toks) : toks \in {Lex(val)}})

\* get_val without the comparison: the cast to u8 alone, which wraps.
get_val_wrapping(value, max_value) ==
    DecToNat(SubSeq(value, IF Len(value) > 6 THEN Len(value) - 5 ELSE 1, Len(value)))
      % (max_value + 1)

\* get_val, then the cast to u8
get_val(value, max_value) ==
    IF DecLess(NatToDec(max_value), value) THEN max_value ELSE DecToNat(value)

\* The loop of From<SemVersion> without the marker for a leading number.
RECURSIVE FromPreNoMarker(_, _)
FromPreNoMarker(pre_releases, ids) ==
    IF ids = <<>> THEN pre_releases
    ELSE IF Head(ids).tag = "AlphaNumeric"
    THEN Only({FromPreNoMarker(p, Tail(ids)) :
               p \in {pre_releases \o extract_prerelease(Head(ids).val)}})
    ELSE Only({FromPreNoMarker(p, Tail(ids)) :
               p \in {pre_releases \o <<Head(ids)>>}})

\* The loop of From<SemVersion> for ChocoVersion over the identifiers ids.
RECURSIVE FromPre(_, _)
FromPre(pre_releases, ids) ==
    IF ids = <<>> THEN pre_releases
    ELSE IF Head(ids).tag = "AlphaNumeric"
    THEN Only({FromPre(p, Tail(ids)) :
               p \in {pre_releases \o extract_prerelease(Head(ids).val)}})
    ELSE Only({FromPre(p, Tail(ids)) :
               p \in {(IF pre_releases = <<>> THEN <<AlphaNumeric(NORMAL_PRE)>>
                       ELSE pre_releases) \o <<Head(ids)>>}})

\* From<SemVersion> for ChocoVersion reading the build metadata as more
\* pre-release identifiers.
from_semver_with_build(semver) ==
    set_prerelease(
        set_patch(new(get_val(semver.major, U8_MAX), get_val(semver.minor, U8_MAX)),
                  get_val(semver.patch, U8_MAX)),
        FromPre(<<>>, semver.pre \o semver.build))

\* From<SemVersion> for ChocoVersion
from_semver(semver) ==
    set_prerelease(
        set_patch(new(get_val(semver.major, U8_MAX), get_val(semver.minor, U8_MAX)),
                  get_val(semver.patch, U8_MAX)),
        FromPre(<<>>, semver.pre))

\* Versions::parse with the two parsers tried in the other order.
Versions_parse_choco_first(val) ==
    Only({IF choco.ok THEN Ok([tag |-> "Choco", val |-> choco.val])
          ELSE Only({IF semver.ok THEN Ok([tag |-> "SemVer", val |-> semver.val])
                     ELSE choco :
                     semver \in {SemVersion_parse(val)}}) :
          choco \in {parse(val)}})

\* Versions::parse: the variant's tag with its value, or the error.
Versions_parse(val) ==
    Only({IF semver.ok THEN Ok([tag |-> "SemVer", val |-> semver.val])
          ELSE Only({IF choco.ok THEN Ok([tag |-> "Choco", val |-> choco.val])
                     ELSE choco :
                     choco \in {parse(val)}}) :
          semver \in {SemVersion_parse(val)}})

-----------------------------------------------------------------------------
(* From<ChocoVersion> for SemVersion *)

\* Option::unwrap_or
unwrap_or(o, default) == IF o.some THEN o.val ELSE default

\* s.chars().take_while(|ch| !ch.is_digit(10))
RECURSIVE TakeNonDigits(_)
TakeNonDigits(s) ==
    IF s # <<>> /\ ~is_digit(Head(s)) THEN <<Head(s)>> \o TakeNonDigits(Tail(s))
    ELSE <<>>

\* The loop over choco.pre_release with a number replacing the one held in
\* build, which is never written.
RECURSIVE SemverLoopNoFlush(_, _)
SemverLoopNoFlush(st, pre) ==
    IF pre = <<>> THEN st
    ELSE IF Head(pre).tag = "AlphaNumeric"
    THEN LET s == Head(pre).val
             prefix == TakeNonDigits(s)
             suffix == SubSeq(s, Len(TakeNonDigits(s)) + 1, Len(s))
             num == IF AllDigits(suffix) THEN parse_u64(suffix) ELSE [ok |-> FALSE]
             with_prefix == IF prefix # <<>> THEN st.ver_str \o <<"-">> \o prefix
                            ELSE st.ver_str
         IN  Only({SemverLoopNoFlush(st2, Tail(pre)) :
                   st2 \in {IF num.ok
                            THEN [ver_str |-> with_prefix, build |-> num.val]
                            ELSE IF suffix # <<>>
                            THEN [ver_str |-> IF prefix = <<>>
                                              THEN with_prefix \o <<"-">> \o suffix
                                              ELSE with_prefix \o suffix,
                                  build |-> st.build]
                            ELSE [ver_str |-> with_prefix, build |-> st.build]}})
    ELSE Only({SemverLoopNoFlush(st2, Tail(pre)) :
               st2 \in {[ver_str |-> st.ver_str, build |-> Head(pre).val]}})

\* The loop over choco.pre_release; st holds the locals ver_str and build.
RECURSIVE SemverLoop(_, _)
SemverLoop(st, pre) ==
    IF pre = <<>> THEN st
    ELSE IF Head(pre).tag = "AlphaNumeric"
    THEN LET s == Head(pre).val
             prefix == TakeNonDigits(s)
             suffix == SubSeq(s, Len(TakeNonDigits(s)) + 1, Len(s))
             num == IF AllDigits(suffix) THEN parse_u64(suffix) ELSE [ok |-> FALSE]
             with_prefix == IF prefix # <<>> THEN st.ver_str \o <<"-">> \o prefix
                            ELSE st.ver_str
         IN  Only({SemverLoop(st2, Tail(pre)) :
                   st2 \in {IF num.ok
                            THEN [ver_str |-> IF st.build # <<"0">>
                                              THEN with_prefix \o <<"-">> \o st.build
                                              ELSE with_prefix,
                                  build |-> num.val]
                            ELSE IF suffix # <<>>
                            THEN [ver_str |-> IF prefix = <<>>
                                              THEN with_prefix \o <<"-">> \o suffix
                                              ELSE with_prefix \o suffix,
                                  build |-> st.build]
                            ELSE [ver_str |-> with_prefix, build |-> st.build]}})
    ELSE Only({SemverLoop(st2, Tail(pre)) :
               st2 \in {[ver_str |-> IF st.build # <<"0">>
                                     THEN st.ver_str \o <<"-">> \o st.build
                                     ELSE st.ver_str,
                         build |-> Head(pre).val]}})

\* The end of the string with the delimiters '.' and '+' wherever they go.
SemverTailDots(choco, st) ==
    IF choco.build.some
    THEN IF st.build # <<"0">>
         THEN st.ver_str \o <<".">> \o st.build \o <<".">> \o choco.build.val
         ELSE st.ver_str \o <<".">> \o choco.build.val
    ELSE IF st.build # <<"0">> THEN st.ver_str \o <<".">> \o st.build
    ELSE st.ver_str

\* The end of the string with '+' before the number left over and '-' before
\* the four-part build, whatever ver_str holds.
SemverTailNoSwap(choco, st) ==
    IF choco.build.some
    THEN IF st.build # <<"0">>
         THEN st.ver_str \o <<"+">> \o st.build \o <<"-">> \o choco.build.val
         ELSE st.ver_str \o <<"+">> \o choco.build.val
    ELSE IF st.build # <<"0">> THEN st.ver_str \o <<"+">> \o st.build
    ELSE st.ver_str

\* The end of the string without the four-part build.
SemverTailNoBuild(choco, st) ==
    LET has_dash == \E k \in 1..Len(st.ver_str) : st.ver_str[k] = "-"
        delim == IF has_dash THEN "." ELSE "+"
    IN  IF st.build # <<"0">> THEN st.ver_str \o <<delim>> \o st.build
        ELSE st.ver_str

\* What follows the loop: the number left over and the four-part build, with
\* the delimiters chosen by whether ver_str holds a '-'.
SemverTail(choco, st) ==
    LET has_dash == \E k \in 1..Len(st.ver_str) : st.ver_str[k] = "-"
        delim == IF has_dash THEN "." ELSE "+"
        alt_delim == IF has_dash THEN "+" ELSE "-"
    IN  IF choco.build.some
        THEN IF st.build # <<"0">>
             THEN st.ver_str \o <<delim>> \o st.build \o <<alt_delim>>
                    \o choco.build.val
             ELSE st.ver_str \o <<delim>> \o choco.build.val
        ELSE IF st.build # <<"0">> THEN st.ver_str \o <<delim>> \o st.build
        ELSE st.ver_str

\* The string that From<ChocoVersion> for SemVersion assembles.
semver_string(choco) ==
    Only({SemverTail(choco, st) :
          st \in {SemverLoop(
                     [ver_str |-> NatToDec(choco.major) \o <<".">>
                                    \o NatToDec(choco.minor) \o <<".">>
                                    \o NatToDec(unwrap_or(choco.patch, 0)),
                      build |-> <<"0">>],
                     choco.pre_release)}})

\* From<ChocoVersion> for SemVersion, before the unwrap: on an Err the
\* unwrap panics.
to_semver(choco) == SemVersion_parse(semver_string(choco))

-----------------------------------------------------------------------------
(* Ord and PartialEq for ChocoVersion *)

\* The characters of the model in the order of their codes.
CharOrder ==
    <<"+", "-", ".", "0", "1", "2", "3", "4", "5", "6", "7", "8", "9", "_",
      "a", "b", "c", "d", "e", "f", "g", "h", "i", "j", "k", "l", "m",
      "n", "o", "p", "q", "r", "s", "t", "u", "v", "w", "x", "y", "z">>

CharCode(ch) == CHOOSE k \in 1..Len(CharOrder) : CharOrder[k] = ch

\* Ord::cmp of two integers
cmp_int(a, b) == IF a < b THEN "Less" ELSE IF a = b THEN "Equal" ELSE "Greater"

\* Ord::cmp of two u32 or u64 values, held as numerals
cmp_dec(a, b) ==
    IF DecLess(a, b) THEN "Less" ELSE IF a = b THEN "Equal" ELSE "Greater"

\* Ord::cmp of two Strings: the first character that differs decides, and a
\* prefix comes before the longer string.
RECURSIVE cmp_str(_, _)
cmp_str(a, b) ==
    IF a = <<>> THEN (IF b = <<>> THEN "Equal" ELSE "Less")
    ELSE IF b = <<>> THEN "Greater"
    ELSE IF Head(a) # Head(b) THEN cmp_int(CharCode(Head(a)), CharCode(Head(b)))
    ELSE cmp_str(Tail(a), Tail(b))

\* The derived Ord of Identifier: the variants in the order they are
\* declared, Numeric before AlphaNumeric, then their values.
cmp_identifier(a, b) ==
    IF a.tag # b.tag THEN (IF a.tag = "Numeric" THEN "Less" ELSE "Greater")
    ELSE IF a.tag = "Numeric" THEN cmp_dec(a.val, b.val)
    ELSE cmp_str(a.val, b.val)

\* Ord::cmp of two Vec<Identifier>: element by element, a prefix first.
RECURSIVE cmp_vec(_, _)
cmp_vec(a, b) ==
    IF a = <<>> THEN (IF b = <<>> THEN "Equal" ELSE "Less")
    ELSE IF b = <<>> THEN "Greater"
    ELSE IF cmp_identifier(Head(a), Head(b)) # "Equal"
    THEN cmp_identifier(Head(a), Head(b))
    ELSE cmp_vec(Tail(a), Tail(b))

\* Ord::cmp that stops after the build, as == does.
cmp_without_prerelease(self, other) ==
    IF cmp_int(self.major, other.major) # "Equal"
    THEN cmp_int(self.major, other.major)
    ELSE IF cmp_int(self.minor, other.minor) # "Equal"
    THEN cmp_int(self.minor, other.minor)
    ELSE IF cmp_int(unwrap_or(self.patch, 0), unwrap_or(other.patch, 0)) # "Equal"
    THEN cmp_int(unwrap_or(self.patch, 0), unwrap_or(other.patch, 0))
    ELSE cmp_dec(unwrap_or(self.build, <<"0">>), unwrap_or(other.build, <<"0">>))

\* Ord::cmp for ChocoVersion
cmp(self, other) ==
    IF cmp_int(self.major, other.major) # "Equal"
    THEN cmp_int(self.major, other.major)
    ELSE IF cmp_int(self.minor, other.minor) # "Equal"
    THEN cmp_int(self.minor, other.minor)
    ELSE IF cmp_int(unwrap_or(self.patch, 0), unwrap_or(other.patch, 0)) # "Equal"
    THEN cmp_int(unwrap_or(self.patch, 0), unwrap_or(other.patch, 0))
    ELSE IF cmp_dec(unwrap_or(self.build, <<"0">>), unwrap_or(other.build, <<"0">>))
              # "Equal"
    THEN cmp_dec(unwrap_or(self.build, <<"0">>), unwrap_or(other.build, <<"0">>))
    ELSE cmp_vec(self.pre_release, other.pre_release)

\* == that compares every field, as a derived PartialEq would.
eq_of_all_fields(self, other) == self = other

\* PartialEq::eq for ChocoVersion
eq(self, other) ==
    /\ self.major = other.major
    /\ self.minor = other.minor
    /\ unwrap_or(self.patch, 0) = unwrap_or(other.patch, 0)
    /\ unwrap_or(self.build, <<"0">>) = unwrap_or(other.build, <<"0">>)

\* The sorted vector with x put behind every element that is not greater.
RECURSIVE InsertSorted(_, _)
InsertSorted(sorted, x) ==
    IF sorted = <<>> THEN <<x>>
    ELSE IF cmp(x, Head(sorted)) = "Less" THEN <<x>> \o sorted
    ELSE <<Head(sorted)>> \o InsertSorted(Tail(sorted), x)

\* versions.sort(): the stable sort of the vector by Ord::cmp.
RECURSIVE sort(_)
sort(v) ==
    IF v = <<>> THEN <<>>
    ELSE InsertSorted(sort(SubSeq(v, 1, Len(v) - 1)), v[Len(v)])

-----------------------------------------------------------------------------
(* The inputs of the model *)

\* The longest string the exhaustive inputs hold.
MaxLen == 4

Alphabet == {"0", "1", ".", "-", "+", "a", "b"}

\* Every string over Alphabet of at most n characters.
RECURSIVE Strs(_)
Strs(n) ==
    IF n = 0 THEN {<<>>}
    ELSE LET S == Strs(n - 1)
         IN  S \cup {Append(s, ch) : s \in S, ch \in Alphabet}

\* The version strings of the crate's tests and examples.
TestInputs ==
    {<<>>,
     <<"3">>,
     <<"1", ".", "0">>,
     <<"0", ".", "2", ".", "6", "5">>,
     <<"3", ".", "5", ".", "0", ".", "2", "3", "4", "2">>,
     <<"3", ".", "3", "-", "a", "l", "p", "h", "a", "0", "0", "1">>,
     <<"3", ".", "2", "-", "a", "l", "p", "h", "a", ".", "1", "0">>,
     <<"3", ".", "3", ".", "5", "-", "b", "e", "t", "a", "-", "1", "1">>,
     <<"3", ".", "1", ".", "1", "+", "5", "5">>,
     <<"4", ".", "0", ".", "0", ".", "2", "-", "b", "e", "t", "a", ".", "5">>,
     <<"0", ".", "1", ".", "0", "-", "5", "5">>,
     <<"4", ".", "2", ".", "1", "-", "a", "l", "p", "h", "a", "5", "4", ".", "2">>,
     <<"6", ".", "1", ".", "0", "-", "5", "5", "-", "a", "l", "p", "h", "a">>,
     <<"6", ".", "2", ".", "2", ".", "2", ".", "1">>,
     <<"n", "o", "-", "v", "e", "r", "s", "i", "o", "n">>,
     <<"6", ".", "2", ".", "1", ".", "1", ".", "3", ".", "4">>,
     <<"2", ".", "0", ".", "2", ".", "5", ".", "1">>,
     <<"5", ".", "1", ".", "6", ".", "4">>,
     <<"5", ".", "1", ".", "0">>,
     <<"i", "n", "v", "a", "l", "i", "d">>,
     <<"4", ".", "5", ".", "1">>,
     <<"5", ".", "2", "-", "a", "l", "p", "h", "a", ".", "5">>,
     <<"1", ".", "0", ".", "5", "-", "b", "e", "t", "a", ".", "5", "5", "+", "9", "9">>,
     <<"1", ".", "2", "5", "5", ".", "3", "-", "a", "l", "p", "h", "a", "+", "4", "4", "6">>,
     <<"0", ".", "3", ".", "0", "-", "u", "n", "s", "t", "a", "b", "l", "e", "-", "0", "0", "1">>,
     <<"5", ".", "1", ".", "1", "-", "a", "l", "p", "h", "a", ".", "5">>,
     <<"1", ".", "2", ".", "3", "-", "b", "e", "t", "a", "5", "0">>,
     <<"3", ".", "0", ".", "0", "-", "6", "6", "6">>,
     <<"2", ".", "0", ".", "0", "-", "5", "5", "b", "e", "t", "a">>,
     <<"3", ".", "0", ".", "0", "-", "b", "e", "t", "a", "-", "0", "0", "5", "0">>,
     <<"1", ".", "2", ".", "2", ".", "5", "-", "u", "n", "s", "t", "a", "b", "l", "e", "-", "0", "0", "5", "0">>,
     <<"5", ".", "1", "-", "b", "e", "t", "a", "0", "9", "9", "5">>,
     <<"1", ".", "0", "-", "a", "l", "p", "h", "a", "-", "0", "0", "0", "2", "-", "r", "c", "0", "0", "0", "5">>,
     <<"5", ".", "0", "-", "b", "e", "t", "a", "-", "c", "e", "t", "a">>,
     <<"2", ".", "1", ".", "0", ".", "5", "-", "a", "l", "p", "h", "a", "0", "0", "5", "5">>,
     <<"5", ".", "3", ".", "1">>,
     <<"4", ".", "2", ".", "1", "-", "a", "l", "p", "h", "a", ".", "5", "+", "6">>}

\* Version strings at the limits of the numeric fields and of the four parts.
BoundaryInputs ==
    {<<"2", "5", "5", ".", "2", "5", "5", ".", "2", "5", "5", ".", "4", "2", "9", "4", "9", "6", "7", "2", "9", "5">>,
     <<"2", "5", "6", ".", "0">>,
     <<"1", ".", "2", "5", "6">>,
     <<"1", ".", "2", ".", "2", "5", "6">>,
     <<"1", ".", "2", ".", "3", ".", "4", "2", "9", "4", "9", "6", "7", "2", "9", "6">>,
     <<"0", ".", "0", ".", "0", ".", "9", "9", "9", "9", "9", "9", "9", "9", "9", "9", "9">>,
     <<"3", "0", "0", ".", "0", ".", "0">>,
     <<"2", "5", "6", ".", "2", "5", "6", ".", "2", "5", "6">>,
     <<"2", "5", "5", ".", "0", ".", "0">>,
     <<"1", ".", "2", ".", "3", ".", "4", ".">>,
     <<"1", ".", "2", ".", "3", ".", "4", ".", ".">>,
     <<"1", ".", ".", "2">>,
     <<"0", "0", "7", ".", "0", "1">>}

\* The strings the constructors of the state machine parse.
ObjectInputs ==
    {<<>>,
     <<"3">>,
     <<"4", ".", "5", ".", "1">>,
     <<"3", ".", "5", ".", "0", ".", "2", "3", "4", "2">>,
     <<"0", ".", "1", ".", "0", "-", "5", "5">>,
     <<"6", ".", "1", ".", "0", "-", "5", "5", "-", "a", "l", "p", "h", "a">>,
     <<"3", ".", "0", ".", "0", "-", "6", "6", "6">>,
     <<"3", "0", "0", ".", "0", ".", "0">>,
     <<"2", ".", "0", ".", "2", ".", "5", ".", "1">>}

\* Version strings with a pre-release of a shape of its own.
ShapeInputs ==
    {<<"1", ".", "0", ".", "0", "-", "a", "0", "0", "1">>,
     <<"1", ".", "0", ".", "0", "-", "0", "0", "1", "a">>,
     <<"1", ".", "0", ".", "0", "-", "b", "-", "0", "1", "0", "-", "0", "2">>,
     <<"1", ".", "0", "-", "a", "_", "b">>,
     <<"1", ".", "0", "_">>,
     <<"1", ".", "0", ".", "0", "-", "1", ".", "2", "-", "a">>,
     <<"1", ".", "0", ".", "0", "-", "a", "1", "-", "b", "2">>,
     <<"1", ".", "0", ".", "0", "-", "a", "-", "b", "1", "-", "2">>,
     <<"5", ".", "2", "-", "a", "l", "p", "h", "a", ".", "5">>,
     <<"2", ".", "1", ".", "0", ".", "5", "-", "a", "l", "p", "h", "a", "0", "0", "5", "5">>}

Prefixes == {<<>>, <<"1", ".", "0", ".", "0">>}

\* The strings the parsers are run on: every short string, alone and after a
\* full three-part version, and the strings above.
Inputs ==
    {p \o s : p \in Prefixes, s \in Strs(MaxLen)} \cup TestInputs \cup BoundaryInputs
      \cup ShapeInputs

\* The dates the clock may show.
Dates == {<<"2", "0", "0", "6", "1", "2", "3", "1">>,
          <<"2", "0", "2", "6", "1", "0", "2", "9">>}

U8Vals == {0, 255}

BuildVals == {<<"5">>,
              <<"2", "0", "0", "7", "0", "1", "0", "0">>,
              <<"2", "0", "0", "7", "0", "1", "0", "1">>,
              <<"2", "0", "2", "0", "0", "8", "2", "6">>}

PreVals == {<<>>,
            <<AlphaNumeric(<<"a", "l", "p", "h", "a">>), Numeric(<<"5", "5">>)>>,
            <<Numeric(<<"5">>), Numeric(<<"1", "2", "3", "4", "5">>)>>,
            <<AlphaNumeric(<<"r", "c">>), AlphaNumeric(<<"b">>), Numeric(<<"2">>),
              Numeric(<<"0">>)>>}

-----------------------------------------------------------------------------
(* The state machine: one ChocoVersion from its construction on *)

Init ==
    /\ today \in Dates
    /\ ver = None
    /\ old = None
    /\ op = "init"
    /\ input = <<>>
    /\ err = ""
    /\ sem = None
    /\ versions = "None"
    /\ out = None
    /\ list = <<>>
    /\ answer = None

\* A constructor or parser returned r
Returned(r, name, s) ==
    /\ ver' = IF r.ok THEN Some(r.val) ELSE None
    /\ err' = IF r.ok THEN "" ELSE r.err
    /\ op' = name
    /\ input' = s
    /\ old' = None
    /\ out' = None

New(major, minor) ==
    /\ op = "init"
    /\ Returned(Ok(new(major, minor)), "new", <<>>)
    /\ UNCHANGED <<today, list, answer, sem, versions>>

WithPatch(major, minor, patch) ==
    /\ op = "init"
    /\ Returned(Ok(with_patch(major, minor, patch)), "with_patch", <<>>)
    /\ UNCHANGED <<today, list, answer, sem, versions>>

WithBuild(major, minor, patch, build) ==
    /\ op = "init"
    /\ Returned(Ok(with_build(major, minor, patch, build)), "with_build", <<>>)
    /\ UNCHANGED <<today, list, answer, sem, versions>>

\* ChocoVersion::parse(s)
Parse(s) ==
    /\ op = "init"
    /\ \E r \in {parse(s)} : Returned(r, "parse", s)
    /\ UNCHANGED <<today, list, answer, sem, versions>>

\* SemVersion::parse(s)
SemParse(s) ==
    /\ op = "init"
    /\ \E r \in {SemVersion_parse(s)} :
           /\ sem' = IF r.ok THEN Some(r.val) ELSE None
           /\ err' = IF r.ok THEN "" ELSE r.err
    /\ op' = "semver_parse"
    /\ input' = s
    /\ UNCHANGED <<today, list, answer, ver, old, versions, out>>

\* ChocoVersion::from(semver)
From ==
    /\ op = "semver_parse"
    /\ sem.some
    /\ ver' = Some(from_semver(sem.val))
    /\ op' = "from"
    /\ UNCHANGED <<today, list, answer, old, input, err, sem, versions, out>>

\* Versions::parse(s)
VersionsParse(s) ==
    /\ op = "init"
    /\ \E r \in {Versions_parse(s)} :
           /\ versions' = IF r.ok THEN r.val.tag ELSE "None"
           /\ sem' = IF r.ok /\ r.val.tag = "SemVer" THEN Some(r.val.val) ELSE None
           /\ ver' = IF r.ok /\ r.val.tag = "Choco" THEN Some(r.val.val) ELSE None
           /\ err' = IF r.ok THEN "" ELSE r.err
    /\ op' = "versions_parse"
    /\ input' = s
    /\ UNCHANGED <<today, list, answer, old, out>>

\* A mutator turned the version into v
Mutated(v, name) ==
    /\ old' = ver
    /\ ver' = Some(v)
    /\ op' = name
    /\ err' = ""
    /\ out' = None
    /\ UNCHANGED <<today, list, answer, input, sem, versions>>

SetPatch(patch) ==
    /\ ver.some
    /\ Mutated(set_patch(ver.val, patch), "set_patch")

SetBuild(build) ==
    /\ ver.some
    /\ Mutated(set_build(ver.val, build), "set_build")

SetPrerelease(pre) ==
    /\ ver.some
    /\ Mutated(set_prerelease(ver.val, pre), "set_prerelease")

AddFix ==
    /\ ver.some
    /\ \E r \in {add_fix(ver.val, today)} :
           /\ old' = ver
           /\ ver' = IF r.ok THEN Some(r.val) ELSE ver
           /\ err' = IF r.ok THEN "" ELSE r.err
    /\ op' = "add_fix"
    /\ out' = None
    /\ UNCHANGED <<today, list, answer, input, sem, versions>>

\* version.to_string()
Display ==
    /\ ver.some
    /\ ~out.some
    /\ out' = Some(fmt(ver.val))
    /\ UNCHANGED <<today, list, answer, ver, old, op, input, err, sem, versions>>

\* ChocoVersion::parse(&version.to_string())
ParseDisplayed ==
    /\ ver.some
    /\ out.some
    /\ op # "reparse"
    /\ \E r \in {parse(out.val)} :
           /\ ver' = IF r.ok THEN Some(r.val) ELSE None
           /\ err' = IF r.ok THEN "" ELSE r.err
    /\ old' = ver
    /\ op' = "reparse"
    /\ UNCHANGED <<today, list, answer, input, sem, versions, out>>

\* SemVersion::from(version); when the semver parser refuses the assembled
\* string the unwrap panics, and the program is left at the panic.
ToSemver ==
    /\ ver.some
    /\ \E s \in {semver_string(ver.val)} :
           /\ input' = s
           /\ \E r \in {SemVersion_parse(s)} :
                  /\ sem' = IF r.ok THEN Some(r.val) ELSE None
                  /\ op' = IF r.ok THEN "to_semver" ELSE "panic"
    /\ err' = ""
    /\ old' = ver
    /\ ver' = None
    /\ UNCHANGED <<today, list, answer, versions, out>>

\* ChocoVersion::from(semver) on the SemVersion that SemVersion::from(version)
\* returned
FromConverted ==
    /\ op = "to_semver"
    /\ sem.some
    /\ ver' = Some(from_semver(sem.val))
    /\ op' = "round_trip"
    /\ UNCHANGED <<today, list, answer, old, input, err, sem, versions, out>>

\* The value goes out of scope
Drop ==
    /\ op \notin {"init", "panic"}
    /\ ver' = None
    /\ old' = None
    /\ op' = "init"
    /\ input' = <<>>
    /\ err' = ""
    /\ sem' = None
    /\ versions' = "None"
    /\ out' = None
    /\ UNCHANGED <<today, list, answer>>

Next ==
    \/ \E major, minor \in U8Vals : New(major, minor)
    \/ \E major, minor, patch \in U8Vals : WithPatch(major, minor, patch)
    \/ \E major, minor, patch \in U8Vals : \E build \in BuildVals :
          WithBuild(major, minor, patch, build)
    \/ \E s \in ObjectInputs : Parse(s)
    \/ \E s \in ObjectInputs : SemParse(s)
    \/ From
    \/ \E patch \in U8Vals : SetPatch(patch)
    \/ \E build \in BuildVals : SetBuild(build)
    \/ \E pre \in PreVals : SetPrerelease(pre)
    \/ AddFix
    \/ Display
    \/ ParseDisplayed
    \/ ToSemver
    \/ Drop

Spec == Init /\ [][Next]_vars

-----------------------------------------------------------------------------
(* Comparing and sorting: a vector of versions *)

\* The version strings of should_sort_versions.
S120_55 == <<"1", ".", "2", ".", "0", "-", "5", "5">>

S12 == <<"1", ".", "2">>

S0421 == <<"0", ".", "4", ".", "2", ".", "1">>

S620 == <<"6", ".", "2", ".", "0">>

S100_rc == <<"1", ".", "0", ".", "0", "-", "r", "c">>

S100_alpha == <<"1", ".", "0", ".", "0", "-", "a", "l", "p", "h", "a">>

S50_beta_56 == <<"5", ".", "0", "-", "b", "e", "t", "a", ".", "5", "6">>

S50_beta_55 == <<"5", ".", "0", "-", "b", "e", "t", "a", ".", "5", "5">>

\* The versions of should_sort_versions that the ordering is stated for.
SortStrings ==
    <<S120_55, S12, S0421, S620, S100_rc, S100_alpha>>

\* The vector that should_sort_versions sorts.
SortVector ==
    [k \in 1..8 |->
        parse(<<S120_55, S12, S0421, S620, S100_rc, S100_alpha, S50_beta_56,
                S50_beta_55>>[k]).val]

\* The vectors that hold each of the six once, and the vector of the test.
SortLists ==
    {[k \in 1..Len(SortStrings) |-> parse(SortStrings[f[k]]).val] :
        f \in {g \in [1..Len(SortStrings) -> 1..Len(SortStrings)] :
                  \A a, b \in 1..Len(SortStrings) : a # b => g[a] # g[b]}}
      \cup {SortVector}

\* Versions that differ in one part, or in the way a part is absent.
CmpVersions ==
    {new(1, 0), with_patch(1, 0, 0), with_patch(1, 0, 1), new(1, 255),
     new(0, 255), with_build(1, 0, 0, <<"0">>), with_build(1, 0, 0, <<"5">>),
     with_build(1, 0, 0, <<"2", "0", "0", "7", "0", "1", "0", "1">>)}
      \cup {set_prerelease(with_patch(1, 0, 0), pre) :
              pre \in {<<Numeric(<<"2">>)>>,
                       <<Numeric(<<"1", "0">>)>>,
                       <<AlphaNumeric(<<"a">>)>>,
                       <<AlphaNumeric(<<"a">>), Numeric(<<"1">>)>>,
                       <<AlphaNumeric(<<"a", "b">>)>>,
                       <<AlphaNumeric(<<"b">>)>>}}

CmpLists == {<<a, b, c>> : a, b, c \in CmpVersions}

InitOrd ==
    /\ today \in {CHOOSE d \in Dates : TRUE}
    /\ ver = None
    /\ old = None
    /\ op = "init"
    /\ input = <<>>
    /\ err = ""
    /\ sem = None
    /\ versions = "None"
    /\ out = None
    /\ list \in SortLists \cup CmpLists
    /\ answer = None

\* list[i].cmp(&list[j])
Cmp(i, j) ==
    /\ op = "init"
    /\ answer' = Some([i |-> i, j |-> j, val |-> cmp(list[i], list[j])])
    /\ op' = "cmp"
    /\ UNCHANGED <<today, ver, old, input, err, sem, versions, out, list>>

\* list[i] == list[j]
Eq(i, j) ==
    /\ op = "init"
    /\ answer' = Some([i |-> i, j |-> j, val |-> eq(list[i], list[j])])
    /\ op' = "eq"
    /\ UNCHANGED <<today, ver, old, input, err, sem, versions, out, list>>

\* list.sort()
Sort ==
    /\ op = "init"
    /\ list' = sort(list)
    /\ op' = "sort"
    /\ UNCHANGED <<today, ver, old, input, err, sem, versions, out, answer>>

NextOrd ==
    \/ \E i, j \in 1..Len(list) : Cmp(i, j)
    \/ \E i, j \in 1..Len(list) : Eq(i, j)
    \/ Sort

SpecOrd == InitOrd /\ [][NextOrd]_vars

-----------------------------------------------------------------------------
(* The parsers as pure functions: each run on every input *)

InitParse ==
    /\ today \in {CHOOSE d \in Dates : TRUE}
    /\ ver = None
    /\ old = None
    /\ op = "init"
    /\ input \in Inputs
    /\ err = ""
    /\ sem = None
    /\ versions = "None"
    /\ out = None
    /\ list = <<>>
    /\ answer = None

NextParse ==
    \/ Parse(input)
    \/ SemParse(input)
    \/ VersionsParse(input)
    \/ From
    \/ Display
    \/ ParseDisplayed
    \/ ToSemver
    \/ FromConverted

SpecParse == InitParse /\ [][NextParse]_vars

-----------------------------------------------------------------------------
(* Vocabulary of the properties *)

\* Strings of the tests and of the properties.
S5164 == <<"5", ".", "1", ".", "6", ".", "4">>

S510 == <<"5", ".", "1", ".", "0">>

S20251 == <<"2", ".", "0", ".", "2", ".", "5", ".", "1">>

S621134 == <<"6", ".", "2", ".", "1", ".", "1", ".", "3", ".", "4">>

S256_0 == <<"2", "5", "6", ".", "0">>

S1_256 == <<"1", ".", "2", "5", "6">>

S1_2_256 == <<"1", ".", "2", ".", "2", "5", "6">>

S1_2_3_4294967296 == <<"1", ".", "2", ".", "3", ".", "4", "2", "9", "4", "9", "6", "7", "2", "9", "6">>

SMax == <<"2", "5", "5", ".", "2", "5", "5", ".", "2", "5", "5", ".", "4", "2", "9", "4", "9", "6", "7", "2", "9", "5">>

S451 == <<"4", ".", "5", ".", "1">>

S3502342 == <<"3", ".", "5", ".", "0", ".", "2", "3", "4", "2">>

S311p55 == <<"3", ".", "1", ".", "1", "+", "5", "5">>

S010_55 == <<"0", ".", "1", ".", "0", "-", "5", "5">>

S300_666 == <<"3", ".", "0", ".", "0", "-", "6", "6", "6">>

S610_55_alpha == <<"6", ".", "1", ".", "0", "-", "5", "5", "-", "a", "l", "p", "h", "a">>

S610_alpha0055 == <<"6", ".", "1", ".", "0", "-", "a", "l", "p", "h", "a", "0", "0", "5", "5">>

S200_55beta == <<"2", ".", "0", ".", "0", "-", "5", "5", "b", "e", "t", "a">>

S421_alpha54_2 == <<"4", ".", "2", ".", "1", "-", "a", "l", "p", "h", "a", "5", "4", ".", "2">>

S421_alpha0054_0002 == <<"4", ".", "2", ".", "1", "-", "a", "l", "p", "h", "a", "0", "0", "5", "4", "-", "0", "0", "0", "2">>

S100_a1 == <<"1", ".", "0", ".", "0", "-", "a", "1">>

S100_a_1 == <<"1", ".", "0", ".", "0", "-", "a", "-", "1">>

S100_a_d1 == <<"1", ".", "0", ".", "0", "-", "a", ".", "1">>

S100_a001 == <<"1", ".", "0", ".", "0", "-", "a", "0", "0", "1">>

S10_a_b == <<"1", ".", "0", "-", "a", "_", "b">>

S52_alpha_5 == <<"5", ".", "2", "-", "a", "l", "p", "h", "a", ".", "5">>

S520_alpha_5 == <<"5", ".", "2", ".", "0", "-", "a", "l", "p", "h", "a", ".", "5">>

S2105_alpha0055 == <<"2", ".", "1", ".", "0", ".", "5", "-", "a", "l", "p", "h", "a", "0", "0", "5", "5">>

S210_alpha_55_5 == <<"2", ".", "1", ".", "0", "-", "a", "l", "p", "h", "a", ".", "5", "5", "+", "5">>

Range(s) == {s[j] : j \in 1..Len(s)}

\* The leading run of digits and dots of s.
RECURSIVE LeadingNumeric(_)
LeadingNumeric(s) ==
    IF s # <<>> /\ (s[1] \in Digit \/ s[1] = ".")
    THEN <<s[1]>> \o LeadingNumeric(Tail(s)) ELSE <<>>

\* The places of s where a run of digits starts.
RunStarts(s) ==
    {j \in 1..Len(s) : s[j] \in Digit /\ (j = 1 \/ s[j - 1] \notin Digit)}

\* The number of digit runs of the leading numeric part of s.
DigitRuns(s) == Cardinality(RunStarts(LeadingNumeric(s)))

\* The pieces of s between its dots, in order.
RECURSIVE SplitDots(_)
SplitDots(s) ==
    IF \A j \in 1..Len(s) : s[j] # "." THEN <<s>>
    ELSE LET j == CHOOSE j \in 1..Len(s) :
                      s[j] = "." /\ \A k \in 1..(j - 1) : s[k] # "."
         IN  <<SubSeq(s, 1, j - 1)>> \o SplitDots(SubSeq(s, j + 1, Len(s)))

\* The digit runs of the leading numeric part of s, in order.
NumericRuns(s) ==
    SelectSeq(SplitDots(LeadingNumeric(s)), LAMBDA piece : piece # <<>>)

\* The largest value of the k-th numeric field, as a numeral.
FieldMax(k) ==
    IF k <= 3 THEN <<"2", "5", "5">>
    ELSE <<"4", "2", "9", "4", "9", "6", "7", "2", "9", "5">>

\* s up to its first '+'.
RECURSIVE BeforePlus(_)
BeforePlus(s) ==
    IF s = <<>> \/ s[1] = "+" THEN <<>> ELSE <<s[1]>> \o BeforePlus(Tail(s))

HasPlus(s) == \E j \in 1..Len(s) : s[j] = "+"

\* What follows the leading numeric part of s, up to the first '+': the text
\* of the pre-release.
PreText(s) ==
    BeforePlus(SubSeq(s, Len(LeadingNumeric(s)) + 1, Len(s)))

IsSeparator(ch) == ch = "-" \/ ch = "."

\* s without the separators it starts with.
RECURSIVE DropSeparators(_)
DropSeparators(s) ==
    IF s # <<>> /\ IsSeparator(s[1]) THEN DropSeparators(Tail(s)) ELSE s

\* The digits s starts with.
RECURSIVE LeadingDigits(_)
LeadingDigits(s) ==
    IF s # <<>> /\ s[1] \in Digit THEN <<s[1]>> \o LeadingDigits(Tail(s)) ELSE <<>>

\* The numbers written in s, in order, as Numeric identifiers.
RECURSIVE NumbersOf(_)
NumbersOf(s) ==
    IF s = <<>> THEN <<>>
    ELSE IF s[1] \in Digit
    THEN LET run == LeadingDigits(s)
         IN  <<Numeric(StripZeros(run))>>
               \o NumbersOf(SubSeq(s, Len(run) + 1, Len(s)))
    ELSE NumbersOf(Tail(s))

FitsU64(n) == ~DecLess(U64_MAX, n)

\* The pre-release text s starts with a number.
StartsWithNumber(s) ==
    DropSeparators(s) # <<>> /\ DropSeparators(s)[1] \in Digit

\* The pre-release text s starts with a label.
StartsWithLabel(s) ==
    DropSeparators(s) # <<>> /\ DropSeparators(s)[1] \notin Digit

\* The pre-release text s holds numbers and separators only.
OnlyNumbers(s) ==
    /\ StartsWithNumber(s)
    /\ \A j \in 1..Len(s) : s[j] \in Digit \/ IsSeparator(s[j])
    /\ \A j \in 1..Len(NumbersOf(s)) : FitsU64(NumbersOf(s)[j].val)

\* The letters s starts with.
RECURSIVE LeadingLetters(_)
LeadingLetters(s) ==
    IF s # <<>> /\ s[1] \in Letter THEN <<s[1]>> \o LeadingLetters(Tail(s)) ELSE <<>>

\* s without its first n characters.
DropFirst(s, n) == SubSeq(s, n + 1, Len(s))

\* The pre-release text s is a number, then a label and nothing else, with
\* or without separators between the two.
NumberThenLabel(s) ==
    LET d == DropSeparators(s)
        number == LeadingDigits(d)
        label == DropSeparators(DropFirst(d, Len(number)))
    IN  /\ number # <<>>
        /\ FitsU64(StripZeros(number))
        /\ label # <<>>
        /\ LeadingLetters(label) = label

\* [AlphaNumeric(label), Numeric(number)] of such a text.
PromotedOf(s) ==
    LET d == DropSeparators(s)
        number == LeadingDigits(d)
        label == DropSeparators(DropFirst(d, Len(number)))
    IN  <<AlphaNumeric(label), Numeric(StripZeros(number))>>

\* The pre-release text s is a label, then numbers and separators only.
LabelThenNumbers(s) ==
    LET d == DropSeparators(s)
        label == LeadingLetters(d)
        rest == DropFirst(d, Len(label))
    IN  /\ label # <<>>
        /\ NumbersOf(rest) # <<>>
        /\ \A j \in 1..Len(rest) : rest[j] \in Digit \/ IsSeparator(rest[j])
        /\ \A j \in 1..Len(NumbersOf(rest)) : FitsU64(NumbersOf(rest)[j].val)

\* [AlphaNumeric(label), Numeric(n1), Numeric(n2), ...] of such a text.
LabelledOf(s) ==
    LET d == DropSeparators(s)
        label == LeadingLetters(d)
    IN  <<AlphaNumeric(label)>> \o NumbersOf(DropFirst(d, Len(label)))

Unstable == AlphaNumeric(<<"u", "n", "s", "t", "a", "b", "l", "e">>)

HasMarker(pre) == \E j \in 1..Len(pre) : pre[j] = Unstable

\* A label: letters only, and not the text of the marker.
IsLabel(id) ==
    /\ id.tag = "AlphaNumeric"
    /\ id.val # <<>>
    /\ \A j \in 1..Len(id.val) : id.val[j] \in Letter
    /\ id # Unstable

\* The state after ChocoVersion::parse(input) returned Ok.
Parsed == op = "parse" /\ err = "" /\ ver.some

\* The state after ChocoVersion::from(sem.val).
Converted == op = "from" /\ sem.some /\ ver.some

BuildOf(v) == v.build.val

Below(build) == DecLess(build, NatToDec(THRESHOLD))

\* The state after add_fix was called on the version old.val.
AfterAddFix == op = "add_fix" /\ old.some /\ ver.some

-----------------------------------------------------------------------------
(* C1.  In every ChocoVersion that the constructors, the setters, add_fix, *)
(* the parser and the conversion from a SemVersion produce, a build that   *)
(* is set comes with a patch that is set, and the formatted text of such   *)
(* a version has four numeric parts.                                       *)
C1_BuildImpliesPatch ==
    ver.some /\ ver.val.build.some =>
        /\ ver.val.patch.some
        /\ DigitRuns(fmt(ver.val)) = 4
        /\ out.some => DigitRuns(out.val) = 4

\* set_build was called on a version without a patch: the patch is now 0.
C1_Witness ==
    /\ op = "set_build" /\ old.some /\ ~old.val.patch.some
    /\ ver.val.build.some /\ ver.val.patch = Some(0)

(* C2 as stated.  add_fix stamps today's date exactly when build is None   *)
(* or below 20070101 and leaves the version unchanged when build is at or  *)
(* above 20070101.                                                         *)
C2_AsStated ==
    AfterAddFix =>
        /\ (~old.val.build.some \/ Below(BuildOf(old.val)))
              => ver.val.build = Some(today)
        /\ (old.val.build.some /\ ~Below(BuildOf(old.val))) => ver = old

(* C2, amended.  add_fix stamps today's date into build exactly when build *)
(* is None or at or above 20070101, and leaves the whole version unchanged *)
(* when build is below 20070101: a version with build 20070100 is not      *)
(* changed, one with build 20070101 gets today's date as its build.        *)
C2_StampsAtOrAboveThreshold ==
    AfterAddFix =>
        /\ (~old.val.build.some \/ ~Below(BuildOf(old.val)))
              => ver.val.build = Some(today)
        /\ (old.val.build.some /\ Below(BuildOf(old.val))) => ver = old
        /\ old.val.build = Some(NatToDec(THRESHOLD - 1)) => ver = old
        /\ old.val.build = Some(NatToDec(THRESHOLD))
              => ver.val.build = Some(today)

\* add_fix replaced a build of exactly 20070101 by another date.
C2_Witness ==
    /\ AfterAddFix
    /\ old.val.build = Some(NatToDec(THRESHOLD))
    /\ ver.val.build = Some(today)
    /\ today # NatToDec(THRESHOLD)

(* C3.  add_fix leaves the whole version as it was when the build is an    *)
(* ordinary build number (below 20070101), and replaces a build that is    *)
(* an old date stamp (at or above 20070101) by today's date, nothing else  *)
(* of the version changing.                                                *)
C3_BuildInUseIsKept ==
    AfterAddFix /\ old.val.build.some =>
        /\ err = ""
        /\ Below(BuildOf(old.val)) => ver = old
        /\ ~Below(BuildOf(old.val))
              => ver.val = [old.val EXCEPT !.build = Some(today)]

\* add_fix was called on a version with build 5 and changed nothing.
C3_Witness ==
    /\ AfterAddFix
    /\ old.val.build = Some(<<"5">>)
    /\ ver = old

(* C4.  add_fix on a version without a build returns Ok, sets build to     *)
(* today's date, sets patch to 0 when it was unset and keeps it otherwise, *)
(* and leaves major, minor and pre_release alone; a version made by        *)
(* new(M, m) then formats as "M.m.0.<date>".                               *)
C4_AddFixOnNoBuild ==
    AfterAddFix /\ ~old.val.build.some =>
        /\ err = ""
        /\ ver.val.build = Some(today)
        /\ ver.val.patch = IF old.val.patch.some THEN old.val.patch ELSE Some(0)
        /\ ver.val.major = old.val.major
        /\ ver.val.minor = old.val.minor
        /\ ver.val.pre_release = old.val.pre_release
        /\ (~old.val.patch.some /\ old.val.pre_release = <<>>)
              => fmt(ver.val) = NatToDec(old.val.major) \o <<".">>
                                  \o NatToDec(old.val.minor)
                                  \o <<".", "0", ".">> \o today

\* add_fix was called on a version with neither patch nor build.
C4_Witness ==
    /\ AfterAddFix
    /\ ~old.val.build.some /\ ~old.val.patch.some
    /\ ver.val.patch = Some(0) /\ ver.val.build = Some(today)

(* C5.  Versions::parse returns the SemVer variant whenever the semver     *)
(* parser accepts the string, the Choco variant when only                  *)
(* ChocoVersion::parse accepts it, and otherwise the error of              *)
(* ChocoVersion::parse; "5.1.6.4" is Choco and "5.1.0" is SemVer.          *)
C5_SemVerFirst ==
    op = "versions_parse" =>
        LET semver == SemVersion_parse(input)
            choco == parse(input)
        IN  /\ semver.ok =>
                 versions = "SemVer" /\ sem = Some(semver.val) /\ ~ver.some /\ err = ""
            /\ (~semver.ok /\ choco.ok) =>
                 versions = "Choco" /\ ver = Some(choco.val) /\ ~sem.some /\ err = ""
            /\ (~semver.ok /\ ~choco.ok) =>
                 versions = "None" /\ ~ver.some /\ ~sem.some /\ err = choco.err
            /\ input = S5164 => versions = "Choco"
            /\ input = S510 => versions = "SemVer"
            /\ input = S20251 => err = ERR_TOO_MANY

\* Versions::parse took a string that both parsers accept as a SemVersion.
C5_Witness ==
    /\ op = "versions_parse" /\ versions = "SemVer"
    /\ SemVersion_parse(input).ok /\ parse(input).ok

(* C6.  ChocoVersion::parse returns an error, and no version, for the      *)
(* empty string, for a string that does not start with a digit, and for a  *)
(* string whose leading run of digits and dots has a digit after a fourth  *)
(* dot.                                                                    *)
C6_Rejected ==
    op = "parse" =>
        /\ input = <<>> => ~ver.some /\ err = ERR_EMPTY
        /\ (input # <<>> /\ input[1] \notin Digit) => ~ver.some /\ err = ERR_NO_DIGIT
        /\ (\E j \in 1..Len(LeadingNumeric(input)) :
                /\ input[j] \in Digit
                /\ Cardinality({k \in 1..j : input[k] = "."}) >= 4)
              => ~ver.some /\ err # ""
        /\ input \in {S20251, S621134} => err = ERR_TOO_MANY

\* ChocoVersion::parse refused a version of five numeric parts.
C6_Witness ==
    op = "parse" /\ input = S20251 /\ ~ver.some /\ err = ERR_TOO_MANY

(* C7.  ChocoVersion::parse returns an error when one of the first four    *)
(* numeric parts does not fit its field (major, minor, patch above 255,    *)
(* build above 4294967295); the largest values are accepted as they are.   *)
C7_OverflowIsAnError ==
    op = "parse" =>
        /\ (\E k \in 1..4 :
                /\ k <= Len(SplitDots(LeadingNumeric(input)))
                /\ SplitDots(LeadingNumeric(input))[k] # <<>>
                /\ DecLess(FieldMax(k),
                           StripZeros(SplitDots(LeadingNumeric(input))[k])))
              => ~ver.some /\ err # ""
        /\ input \in {S256_0, S1_256, S1_2_256, S1_2_3_4294967296}
              => err = "number too large to fit in target type"
        /\ input = SMax => ver = Some(with_build(255, 255, 255, FieldMax(4)))

\* ChocoVersion::parse refused a build of 4294967296.
C7_Witness ==
    /\ op = "parse" /\ input = S1_2_3_4294967296
    /\ ~ver.some /\ err = "number too large to fit in target type"

(* C8.  For an accepted input, ChocoVersion::parse assigns the first to    *)
(* fourth digit runs of the leading numeric part to major, minor, patch    *)
(* and build; a missing minor is 0, a missing patch or build stays unset.  *)
C8_PartsInOrder ==
    Parsed =>
        LET runs == NumericRuns(input)
            v == ver.val
        IN  /\ Len(runs) \in 1..4
            /\ NatToDec(v.major) = StripZeros(runs[1])
            /\ NatToDec(v.minor) = IF Len(runs) >= 2 THEN StripZeros(runs[2])
                                   ELSE <<"0">>
            /\ v.patch.some <=> Len(runs) >= 3
            /\ v.patch.some => NatToDec(v.patch.val) = StripZeros(runs[3])
            /\ v.build.some <=> Len(runs) >= 4
            /\ v.build.some => v.build.val = StripZeros(runs[4])
            /\ input = <<"3">> => fmt(v) = <<"3", ".", "0">>
            /\ input \in {<<"1", ".", "0">>, S451, S3502342} => fmt(v) = input

\* ChocoVersion::parse read "4.5.1".
C8_Witness ==
    Parsed /\ input = S451 /\ ver.val = with_patch(4, 5, 1)

(* C9.  ChocoVersion::parse discards everything from the first '+' on: the *)
(* result for s + "+" + t is the result for s whenever s is accepted.      *)
C9_PlusIsDiscarded ==
    (op = "parse" /\ HasPlus(input) /\ parse(BeforePlus(input)).ok) =>
        /\ err = ""
        /\ ver = Some(parse(BeforePlus(input)).val)
        /\ input = S311p55 => fmt(ver.val) = <<"3", ".", "1", ".", "1">>

\* ChocoVersion::parse read a pre-release followed by build metadata.
C9_Witness ==
    /\ Parsed /\ HasPlus(input)
    /\ ver.val.pre_release # <<>>
    /\ Len(BeforePlus(input)) + 1 < Len(input)

(* C10 as stated.  A pre-release that starts with a bare number gets the   *)
(* label "unstable" in front of it, in ChocoVersion::parse and in the      *)
(* conversion from a SemVersion; no marker is inserted when a label        *)
(* precedes the number.                                                    *)
C10_AsStated ==
    /\ (Parsed /\ StartsWithNumber(PreText(input))) =>
          /\ Len(ver.val.pre_release) >= 2
          /\ ver.val.pre_release[1] = Unstable
          /\ ver.val.pre_release[2].tag = "Numeric"
    /\ (Converted /\ sem.val.pre # <<>> /\ sem.val.pre[1].tag = "Numeric") =>
          /\ Len(ver.val.pre_release) >= 2
          /\ ver.val.pre_release[1] = Unstable
          /\ ver.val.pre_release[2] = sem.val.pre[1]
    /\ (Parsed /\ StartsWithLabel(PreText(input)) /\ "u" \notin Range(input)) =>
          ~HasMarker(ver.val.pre_release)

(* C10, amended.  A pre-release made of bare numbers only gets the label   *)
(* "unstable" in front of them in ChocoVersion::parse ("0.1.0-55" gives    *)
(* [unstable, 55] and formats as "0.1.0-unstable0055"); a pre-release that *)
(* is one number followed by one label of letters is [label, number]       *)
(* instead ("6.1.0-55-alpha" gives [alpha, 55]); a SemVersion              *)
(* whose first pre-release identifier is numeric gets the marker in the    *)
(* conversion; no marker is inserted when a label precedes the number.     *)
C10_UnstableMarker ==
    /\ (Parsed /\ OnlyNumbers(PreText(input))) =>
          ver.val.pre_release = <<Unstable>> \o NumbersOf(PreText(input))
    /\ (Parsed /\ input = S010_55) =>
          /\ ver.val.pre_release = <<Unstable, Numeric(<<"5", "5">>)>>
          /\ fmt(ver.val) = <<"0", ".", "1", ".", "0", "-", "u", "n", "s", "t",
                              "a", "b", "l", "e", "0", "0", "5", "5">>
    /\ (Parsed /\ NumberThenLabel(PreText(input))) =>
          ver.val.pre_release = PromotedOf(PreText(input))
    /\ (Parsed /\ input = S610_55_alpha) =>
          ver.val.pre_release = <<AlphaNumeric(<<"a", "l", "p", "h", "a">>),
                                  Numeric(<<"5", "5">>)>>
    /\ (Converted /\ input = S300_666) =>
          ver.val.pre_release = <<Unstable, Numeric(<<"6", "6", "6">>)>>
    /\ (Converted /\ sem.val.pre # <<>> /\ sem.val.pre[1].tag = "Numeric") =>
          /\ Len(ver.val.pre_release) >= 2
          /\ ver.val.pre_release[1] = Unstable
          /\ ver.val.pre_release[2] = sem.val.pre[1]
    /\ (Parsed /\ StartsWithLabel(PreText(input)) /\ "u" \notin Range(input)) =>
          ~HasMarker(ver.val.pre_release)
    /\ (Converted /\ Len(sem.val.pre) = 2 /\ IsLabel(sem.val.pre[1])
          /\ sem.val.pre[2].tag = "Numeric") =>
          ver.val.pre_release = sem.val.pre

\* The conversion read the SemVersion "3.0.0-666".
C10_Witness ==
    /\ Converted /\ input = S300_666
    /\ ver.val.pre_release = <<Unstable, Numeric(<<"6", "6", "6">>)>>

(* C11.  When the pre-release text is a number followed by a label, with   *)
(* or without separators between them, ChocoVersion::parse drops the       *)
(* synthesized marker and returns exactly [AlphaNumeric(label),            *)
(* Numeric(number)]; the conversion from a SemVersion does the same when   *)
(* the two form one identifier; "6.1.0-55-alpha" formats as                *)
(* "6.1.0-alpha0055".                                                      *)
C11_MarkerPromotion ==
    /\ (Parsed /\ NumberThenLabel(PreText(input))) =>
          ver.val.pre_release = PromotedOf(PreText(input))
    /\ (Parsed /\ input = S610_55_alpha) =>
          /\ ver.val.pre_release = <<AlphaNumeric(<<"a", "l", "p", "h", "a">>),
                                     Numeric(<<"5", "5">>)>>
          /\ fmt(ver.val) = S610_alpha0055
    /\ (Parsed /\ input = S200_55beta) =>
          ver.val.pre_release = <<AlphaNumeric(<<"b", "e", "t", "a">>),
                                  Numeric(<<"5", "5">>)>>
    /\ (Converted /\ Len(sem.val.pre) = 1 /\ sem.val.pre[1].tag = "AlphaNumeric"
          /\ NumberThenLabel(sem.val.pre[1].val)) =>
          ver.val.pre_release = PromotedOf(sem.val.pre[1].val)

\* ChocoVersion::parse read a number and a label with no separator between.
C11_Witness ==
    /\ Parsed /\ NumberThenLabel(PreText(input))
    /\ IsSeparator(PreText(input)[1])
    /\ ~IsSeparator(PreText(input)[Len(PreText(input)) - 1])
    /\ Len(ver.val.pre_release) = 2
    /\ ~HasMarker(ver.val.pre_release)

(* C12.  A label followed by a number gives [AlphaNumeric(label),          *)
(* Numeric(n)] whether the two are adjacent or separated by '.' or '-',    *)
(* whatever zeros the number starts with; every further number after a     *)
(* separator is one more Numeric ("alpha54.2" gives [alpha, 54, 2]).       *)
C12_LabelThenNumber ==
    /\ (Parsed /\ LabelThenNumbers(PreText(input))) =>
          ver.val.pre_release = LabelledOf(PreText(input))
    /\ (Parsed /\ input = S421_alpha54_2) =>
          /\ ver.val.pre_release = <<AlphaNumeric(<<"a", "l", "p", "h", "a">>),
                                     Numeric(<<"5", "4">>), Numeric(<<"2">>)>>
          /\ fmt(ver.val) = S421_alpha0054_0002
    /\ (Parsed /\ input \in {S100_a1, S100_a_1, S100_a_d1, S100_a001}) =>
          ver.val.pre_release = <<AlphaNumeric(<<"a">>), Numeric(<<"1">>)>>

\* ChocoVersion::parse read a label with a zero-led number right after it.
C12_Witness ==
    /\ Parsed /\ input = S100_a001
    /\ ver.val.pre_release = <<AlphaNumeric(<<"a">>), Numeric(<<"1">>)>>

\* The number d with zeros in front of it up to four digits.
ZeroPadded(d) == [k \in 1..(4 - Len(d)) |-> "0"] \o d

\* What the j-th pre-release identifier of pre is written as.
WrittenAs(pre, j) ==
    IF pre[j].tag = "AlphaNumeric" THEN <<"-">> \o pre[j].val
    ELSE IF j > 1 /\ pre[j - 1].tag = "AlphaNumeric" THEN ZeroPadded(pre[j].val)
    ELSE <<"-">> \o ZeroPadded(pre[j].val)

\* What the first n pre-release identifiers of pre are written as.
RECURSIVE WrittenUpTo(_, _)
WrittenUpTo(pre, n) ==
    IF n = 0 THEN <<>> ELSE WrittenUpTo(pre, n - 1) \o WrittenAs(pre, n)

\* The state after Display wrote the text of the version at hand.
Displayed == out.some /\ ver.some /\ op \notin {"reparse", "to_semver"}

(* C13.  The text of a ChocoVersion is "major.minor", then ".patch" iff    *)
(* the patch is set, then ".build" iff the build is set, then the          *)
(* pre-release identifiers in order: an AlphaNumeric as "-" and its text,  *)
(* a Numeric right after an AlphaNumeric zero-padded to four digits with   *)
(* no separator, any other Numeric as "-" and the zero-padded number.      *)
C13_Format ==
    Displayed =>
        /\ out.val = NatToDec(ver.val.major) \o <<".">> \o NatToDec(ver.val.minor)
                       \o (IF ver.val.patch.some
                           THEN <<".">> \o NatToDec(ver.val.patch.val) ELSE <<>>)
                       \o (IF ver.val.build.some
                           THEN <<".">> \o ver.val.build.val ELSE <<>>)
                       \o WrittenUpTo(ver.val.pre_release, Len(ver.val.pre_release))

\* A version with a build and with numbers after a label and after a number
\* was formatted.
C13_Witness ==
    /\ Displayed
    /\ ver.val.build.some
    /\ Len(ver.val.pre_release) = 4
    /\ out.val[Len(out.val) - 4] = "-"

\* The state after ChocoVersion::parse read the text out.val of old.val.
Reparsed == op = "reparse" /\ old.some /\ out.some

\* The patch of v, 0 when it is not set.
PatchOr0(v) == IF v.patch.some THEN v.patch.val ELSE 0

\* The build of v as a numeral, 0 when it is not set.
BuildOr0(v) == IF v.build.some THEN v.build.val ELSE <<"0">>

(* C14.  For every ChocoVersion v of the state machine (each has a patch   *)
(* whenever it has a build), ChocoVersion::parse accepts the text of v and *)
(* returns a version with the same major, minor, patch and build, an       *)
(* absent patch or build counting as 0.                                    *)
C14_ParseOfFormat ==
    Reparsed =>
        /\ err = ""
        /\ ver.some
        /\ ver.val.major = old.val.major
        /\ ver.val.minor = old.val.minor
        /\ PatchOr0(ver.val) = PatchOr0(old.val)
        /\ BuildOr0(ver.val) = BuildOr0(old.val)

\* The text of a version with a patch of 0, a build and a pre-release that
\* starts with a number was parsed.
C14_Witness ==
    /\ Reparsed /\ ver.some
    /\ old.val.patch = Some(0)
    /\ old.val.build.some
    /\ old.val.pre_release # <<>>
    /\ old.val.pre_release[1].tag = "Numeric"

(* C15.  For every string s that ChocoVersion::parse accepts, with         *)
(* t = format(parse(s)): parse accepts t, and format(parse(t)) = t.        *)
C15_FormatIsFixedPoint ==
    (Reparsed /\ parse(input).ok /\ old.val = parse(input).val) =>
        /\ out.val = fmt(parse(input).val)
        /\ err = ""
        /\ ver.some
        /\ fmt(ver.val) = out.val

\* The numeric parts of v that are compared, an absent patch or build as 0.
NumericKey(v) == <<v.major, v.minor, PatchOr0(v), BuildOr0(v)>>

\* The text a comes before the text b.
TextBefore(a, b) ==
    \E k \in 1..Len(b) :
        /\ k <= Len(a) + 1
        /\ \A n \in 1..(k - 1) : a[n] = b[n]
        /\ k = Len(a) + 1 \/ CharCode(a[k]) < CharCode(b[k])

\* The identifier x comes before the identifier y.
IdentifierBefore(x, y) ==
    \/ x.tag = "Numeric" /\ y.tag = "AlphaNumeric"
    \/ x.tag = "Numeric" /\ y.tag = "Numeric" /\ DecLess(x.val, y.val)
    \/ x.tag = "AlphaNumeric" /\ y.tag = "AlphaNumeric" /\ TextBefore(x.val, y.val)

\* The identifiers p come before the identifiers q.
PreBefore(p, q) ==
    \E k \in 1..Len(q) :
        /\ k <= Len(p) + 1
        /\ \A n \in 1..(k - 1) : p[n] = q[n]
        /\ k = Len(p) + 1 \/ IdentifierBefore(p[k], q[k])

\* The version a comes before the version b in the lexicographic order of
\* (major, minor, patch or 0, build or 0, pre_release).
VersionBefore(a, b) ==
    \/ a.major < b.major
    \/ a.major = b.major /\ a.minor < b.minor
    \/ a.major = b.major /\ a.minor = b.minor /\ PatchOr0(a) < PatchOr0(b)
    \/ /\ a.major = b.major /\ a.minor = b.minor /\ PatchOr0(a) = PatchOr0(b)
       /\ DecLess(BuildOr0(a), BuildOr0(b))
    \/ /\ NumericKey(a) = NumericKey(b)
       /\ PreBefore(a.pre_release, b.pre_release)

(* C16.  cmp of two ChocoVersions is the lexicographic order of (major,    *)
(* minor, patch or 0, build or 0, pre_release), the pre-release            *)
(* identifiers compared one by one with a Numeric before an AlphaNumeric,  *)
(* Numerics by value and AlphaNumerics as text; it is a total order of     *)
(* these tuples.                                                           *)
C16_CmpIsLexicographic ==
    op = "cmp" =>
        LET a == list[answer.val.i]
            b == list[answer.val.j]
        IN  /\ answer.val.val = "Less" <=> VersionBefore(a, b)
            /\ answer.val.val = "Greater" <=> VersionBefore(b, a)
            /\ answer.val.val = "Equal" <=>
                  /\ NumericKey(a) = NumericKey(b)
                  /\ a.pre_release = b.pre_release
            /\ answer.val.val = "Less" <=> cmp(b, a) = "Greater"
            /\ answer.val.val = "Equal" <=> cmp(b, a) = "Equal"
            /\ \A k \in 1..Len(list) :
                  (answer.val.val # "Greater" /\ cmp(b, list[k]) # "Greater")
                     => cmp(a, list[k]) # "Greater"

\* A number came before a label, and 2 before 10.
C16_Witness ==
    /\ op = "cmp" /\ answer.val.val = "Less"
    /\ NumericKey(list[answer.val.i]) = NumericKey(list[answer.val.j])
    /\ list[answer.val.i].pre_release = <<Numeric(<<"2">>)>>
    /\ list[answer.val.j].pre_release = <<Numeric(<<"1", "0">>)>>
    /\ \E k \in 1..Len(list) : list[k].pre_release = <<AlphaNumeric(<<"a">>)>>

(* C17.  Sorting the versions parsed from "1.2.0-55", "1.2", "0.4.2.1",    *)
(* "6.2.0", "1.0.0-rc", "1.0.0-alpha" by cmp gives the strictly increasing *)
(* chain 0.4.2.1 < 1.0.0-alpha < 1.0.0-rc < 1.2.0-55 < 1.2 < 6.2.0: the    *)
(* version with a pre-release comes before the one without.                *)
C17_SortedChain ==
    (op = "sort" /\ Len(list) = Len(SortStrings)) =>
        /\ list = <<parse(S0421).val, parse(S100_alpha).val, parse(S100_rc).val,
                    parse(S120_55).val, parse(S12).val, parse(S620).val>>
        /\ \A k \in 1..(Len(list) - 1) : cmp(list[k], list[k + 1]) = "Less"

(* C18.  Two ChocoVersions are == exactly when their major, minor, patch   *)
(* or 0 and build or 0 are equal; two versions that differ in pre_release  *)
(* only are == although cmp does not return Equal for them.                *)
C18_EqIgnoresPrerelease ==
    op = "eq" =>
        LET a == list[answer.val.i]
            b == list[answer.val.j]
        IN  /\ answer.val.val <=> NumericKey(a) = NumericKey(b)
            /\ (NumericKey(a) = NumericKey(b) /\ a.pre_release # b.pre_release) =>
                  answer.val.val /\ cmp(a, b) # "Equal"

\* A version without patch and pre-release was == to one with a patch of 0
\* and a pre-release.
C18_Witness ==
    /\ op = "eq" /\ answer.val.val
    /\ ~list[answer.val.i].patch.some
    /\ list[answer.val.j].patch = Some(0)
    /\ list[answer.val.i].pre_release # list[answer.val.j].pre_release
    /\ cmp(list[answer.val.i], list[answer.val.j]) = "Less"

\* The state after SemVersion::from(old.val).
ToSemverDone == op = "to_semver" /\ old.some

(* C19.  Converting a ChocoVersion to a SemVersion never fails: for every  *)
(* ChocoVersion that ChocoVersion::parse can return, the semver parser     *)
(* accepts the string the conversion assembles, and the unwrap does not    *)
(* panic.                                                                  *)
C19_ToSemverNeverPanics == op # "panic"

(* C20.  A ChocoVersion whose pre_release is [AlphaNumeric(label),         *)
(* Numeric(n)] with n > 0 converts to the SemVersion of "M.m.p-label.n",   *)
(* and of "M.m.p-label.n+B" when its build is B, an absent patch written   *)
(* as 0: "5.2-alpha.5" gives "5.2.0-alpha.5" and "2.1.0.5-alpha0055" gives *)
(* "2.1.0-alpha.55+5".                                                     *)
C20_LabelNumberToSemver ==
    /\ (/\ ToSemverDone
        /\ Len(old.val.pre_release) = 2
        /\ old.val.pre_release[1].tag = "AlphaNumeric"
        /\ old.val.pre_release[1].val # <<>>
        /\ LeadingLetters(old.val.pre_release[1].val) = old.val.pre_release[1].val
        /\ old.val.pre_release[2].tag = "Numeric"
        /\ old.val.pre_release[2].val # <<"0">>) =>
          LET v == old.val
              text == NatToDec(v.major) \o <<".">> \o NatToDec(v.minor) \o <<".">>
                        \o NatToDec(PatchOr0(v)) \o <<"-">> \o v.pre_release[1].val
                        \o <<".">> \o v.pre_release[2].val
                        \o (IF v.build.some THEN <<"+">> \o v.build.val ELSE <<>>)
          IN  /\ input = text
              /\ err = ""
              /\ sem = Some(SemVer(NatToDec(v.major), NatToDec(v.minor),
                                   NatToDec(PatchOr0(v)), v.pre_release,
                                   IF v.build.some THEN <<Numeric(v.build.val)>>
                                   ELSE <<>>))
    /\ (ToSemverDone /\ old.val = parse(S52_alpha_5).val) => input = S520_alpha_5
    /\ (ToSemverDone /\ old.val = parse(S2105_alpha0055).val) =>
          input = S210_alpha_55_5

\* The version parsed from "2.1.0.5-alpha0055" was converted.
C20_Witness ==
    /\ ToSemverDone /\ old.val = parse(S2105_alpha0055).val
    /\ sem.some /\ sem.val.build = <<Numeric(<<"5">>)>>

-----------------------------------------------------------------------------
(* The conversions between the two schemes *)

\* "M.m.p" of a ChocoVersion, the patch written as 0 when it is unset.
BaseText(v) ==
    NatToDec(v.major) \o <<".">> \o NatToDec(v.minor) \o <<".">>
      \o NatToDec(PatchOr0(v))

\* An identifier that is a label of letters.
IsLetters(id) ==
    /\ id.tag = "AlphaNumeric"
    /\ id.val # <<>>
    /\ \A j \in 1..Len(id.val) : id.val[j] \in Letter

\* The SemVersion with the fields of v and the given identifiers.
SemOf(v, pre, build) ==
    Some(SemVer(NatToDec(v.major), NatToDec(v.minor), NatToDec(PatchOr0(v)),
                pre, build))

(* C21: the four-part build B of a converted version goes where the          *)
(* pre-release leaves room. With an empty pre_release the string is          *)
(* "M.m.p+B" and B is build metadata; with one label and no number it is     *)
(* "M.m.p-label.B" and B is the last pre-release identifier; with a label    *)
(* and a number n > 0 it is "M.m.p-label.n+B" and B is build metadata.       *)
C21_BuildFolding ==
    (ToSemverDone /\ old.val.build.some) =>
        LET v == old.val
            B == v.build.val
            pre == v.pre_release
        IN  /\ pre = <<>> =>
                /\ input = BaseText(v) \o <<"+">> \o B
                /\ sem = SemOf(v, <<>>, <<Numeric(B)>>)
            /\ (Len(pre) = 1 /\ IsLetters(pre[1])) =>
                /\ input = BaseText(v) \o <<"-">> \o pre[1].val \o <<".">> \o B
                /\ sem = SemOf(v, <<pre[1], Numeric(B)>>, <<>>)
            /\ (/\ Len(pre) = 2 /\ IsLetters(pre[1])
                /\ pre[2].tag = "Numeric" /\ pre[2].val # <<"0">>) =>
                /\ input = BaseText(v) \o <<"-">> \o pre[1].val \o <<".">>
                             \o pre[2].val \o <<"+">> \o B
                /\ sem = SemOf(v, pre, <<Numeric(B)>>)

\* A version with a build and one label, no number, was converted.
C21_Witness ==
    /\ ToSemverDone /\ old.val.build.some
    /\ Len(old.val.pre_release) = 1 /\ IsLetters(old.val.pre_release[1])
    /\ sem.some /\ Len(sem.val.pre) = 2 /\ sem.val.build = <<>>

\* 255 as a numeral.
N255 == <<"2", "5", "5">>

\* A field of a SemVersion as From must copy it: itself up to 255, else 255.
Clamped(n) == IF DecLess(N255, n) THEN 255 ELSE DecToNat(n)

(* C22: the version From makes of a SemVersion has the major, minor and      *)
(* patch of the SemVersion, each replaced by 255 when it is larger, and its  *)
(* patch is set; the conversion reports no error.                            *)
C22_FromClamps ==
    Converted =>
        /\ ver.val.major = Clamped(sem.val.major)
        /\ ver.val.minor = Clamped(sem.val.minor)
        /\ ver.val.patch = Some(Clamped(sem.val.patch))
        /\ ver.val.major \in 0..255 /\ ver.val.minor \in 0..255
        /\ err = ""
        /\ (sem.val.major = N255 => ver.val.major = 255)
        /\ (sem.val.major \in {<<"2", "5", "6">>, <<"3", "0", "0">>} =>
              ver.val.major = 255)

\* "256.256.256" was converted.
C22_Witness ==
    /\ Converted
    /\ sem.val.major = <<"2", "5", "6">> /\ sem.val.patch = <<"2", "5", "6">>
    /\ ver.val.major = 255 /\ ver.val.patch = Some(255)

S105_beta_55_99 == <<"1", ".", "0", ".", "5", "-", "b", "e", "t", "a", ".", "5", "5", "+", "9", "9">>

S105_beta0055 == <<"1", ".", "0", ".", "5", "-", "b", "e", "t", "a", "0", "0", "5", "5">>

S1_255_3_alpha_446 == <<"1", ".", "2", "5", "5", ".", "3", "-", "a", "l", "p", "h", "a", "+", "4", "4", "6">>

(* C23: the version From makes of a SemVersion has no build, and it is the   *)
(* version From makes of the same string cut before its '+': the build       *)
(* metadata changes nothing. "1.0.5-beta.55+99" is written "1.0.5-beta0055"  *)
(* and "1.255.3-alpha+446" has the pre_release [alpha].                      *)
C23_BuildMetadataDropped ==
    Converted =>
        /\ ~ver.val.build.some
        /\ (sem.val.pre = <<>> => ver.val.pre_release = <<>>)
        /\ \A r \in {SemVersion_parse(BeforePlus(input))} :
              r.ok => /\ r.val.build = <<>>
                      /\ ver.val = from_semver(r.val)
        /\ (input = S105_beta_55_99 => fmt(ver.val) = S105_beta0055)
        /\ (input = S1_255_3_alpha_446 =>
              ver.val.pre_release = <<AlphaNumeric(<<"a", "l", "p", "h", "a">>)>>)

\* "1.0.5-beta.55+99" was converted.
C23_Witness ==
    /\ Converted /\ input = S105_beta_55_99
    /\ sem.val.build # <<>>
    /\ ~ver.val.build.some

(* C24: for a string without '+' that both parsers accept, the version From  *)
(* makes of the parsed SemVersion has the major, minor, patch and            *)
(* pre_release, and so the text, of the version ChocoVersion::parse makes    *)
(* of the same string.                                                       *)
C24_FromAgreesWithParse ==
    (Converted /\ ~HasPlus(input)) =>
        \A r \in {parse(input)} :
            r.ok => /\ ver.val.major = r.val.major
                    /\ ver.val.minor = r.val.minor
                    /\ ver.val.patch = r.val.patch
                    /\ ver.val.pre_release = r.val.pre_release
                    /\ fmt(ver.val) = fmt(r.val)

\* The Numeric identifiers of a pre_release, in order.
NumericsOf(pre) == SelectSeq(pre, LAMBDA id : id.tag = "Numeric")

\* What the conversion to semver wrote after "M.m.p".
AfterBase(v, s) == SubSeq(s, Len(BaseText(v)) + 1, Len(s))

S10_alpha_0002_rc0005 == <<"1", ".", "0", "-", "a", "l", "p", "h", "a", "-", "0", "0", "0", "2", "-", "r", "c", "0", "0", "0", "5">>

S100_alpha_rc_2_5 == <<"1", ".", "0", ".", "0", "-", "a", "l", "p", "h", "a", "-", "r", "c", "-", "2", ".", "5">>

S421_alpha54_d2 == <<"4", ".", "2", ".", "1", "-", "a", "l", "p", "h", "a", "5", "4", ".", "2">>

S421_alpha_54_2 == <<"4", ".", "2", ".", "1", "-", "a", "l", "p", "h", "a", "-", "5", "4", ".", "2">>

(* C25: converting a version without build whose pre_release holds labels    *)
(* of letters and numbers writes every number of pre_release, in order: the  *)
(* numbers read in the text after "M.m.p" are the Numeric identifiers of     *)
(* pre_release, none missing. [alpha, 2, rc, 5] gives "1.0.0-alpha-rc-2.5"   *)
(* and [alpha, 54, 2] gives "4.2.1-alpha-54.2".                              *)
C25_EveryNumberWritten ==
    /\ (/\ ToSemverDone /\ ~old.val.build.some
        /\ \A j \in 1..Len(old.val.pre_release) :
              \/ IsLetters(old.val.pre_release[j])
              \/ old.val.pre_release[j].tag = "Numeric") =>
          NumbersOf(AfterBase(old.val, input)) = NumericsOf(old.val.pre_release)
    /\ (ToSemverDone /\ old.val = parse(S10_alpha_0002_rc0005).val) =>
          input = S100_alpha_rc_2_5
    /\ (ToSemverDone /\ old.val = parse(S421_alpha54_d2).val) =>
          input = S421_alpha_54_2

\* A character of a label: neither a digit nor a separator.
IsLabelChar(ch) == ch \notin Digit /\ ~IsSeparator(ch)

\* r is the text of a maximal run of label characters of s.
IsLabelRun(r, s) ==
    \E i \in 1..Len(s) :
        /\ r # <<>>
        /\ i + Len(r) - 1 <= Len(s)
        /\ r = SubSeq(s, i, i + Len(r) - 1)
        /\ \A k \in 1..Len(r) : IsLabelChar(r[k])
        /\ (i = 1 \/ ~IsLabelChar(s[i - 1]))
        /\ (i + Len(r) - 1 = Len(s) \/ ~IsLabelChar(s[i + Len(r)]))

(* C26: every AlphaNumeric identifier of a parsed pre_release is the marker  *)
(* "unstable" or the text of one maximal run of characters of the            *)
(* pre-release text that are neither digits nor separators, and it holds no  *)
(* digit.                                                                    *)
C26_LabelsAreRuns ==
    Parsed =>
        \A j \in 1..Len(ver.val.pre_release) :
            ver.val.pre_release[j].tag = "AlphaNumeric" =>
                /\ \/ ver.val.pre_release[j] = Unstable
                   \/ IsLabelRun(ver.val.pre_release[j].val, PreText(input))
                /\ \A k \in 1..Len(ver.val.pre_release[j].val) :
                      ver.val.pre_release[j].val[k] \notin Digit

(* C27: a parsed pre_release that is not empty starts with an AlphaNumeric   *)
(* identifier, never with a Numeric one.                                     *)
C27_NeverStartsWithNumber ==
    (Parsed /\ ver.val.pre_release # <<>>) =>
        ver.val.pre_release[1].tag = "AlphaNumeric"

\* The versions ChocoVersion::parse returns on the inputs.
ParsedVersions == {parse(s).val : s \in {x \in Inputs : parse(x).ok}}

\* Every Numeric identifier of pre is greater than 0.
NumbersPositive(pre) ==
    \A j \in 1..Len(pre) : pre[j].tag = "Numeric" => pre[j].val # <<"0">>

\* The state after ChocoVersion::from(SemVersion::from(old.val)).
RoundTripped == op = "round_trip" /\ old.some /\ ver.some

(* C28: a version returned by ChocoVersion::parse, with no build and every   *)
(* number of its pre_release greater than 0, comes back from the conversion  *)
(* to semver and back with its major, minor, patch (0 when unset) and        *)
(* pre_release.                                                              *)
C28_RoundTrip ==
    (/\ RoundTripped
     /\ old.val \in ParsedVersions
     /\ ~old.val.build.some
     /\ NumbersPositive(old.val.pre_release)) =>
        /\ ver.val.major = old.val.major
        /\ ver.val.minor = old.val.minor
        /\ ver.val.patch = Some(PatchOr0(old.val))
        /\ ver.val.pre_release = old.val.pre_release

\* pre is labels of letters, at least one, followed by numbers greater than
\* 0 and nothing else; or pre is empty.
LabelsThenPositive(pre) ==
    \/ pre = <<>>
    \/ \E k \in 1..Len(pre) :
          /\ \A j \in 1..k : IsLetters(pre[j])
          /\ \A j \in (k + 1)..Len(pre) :
                pre[j].tag = "Numeric" /\ pre[j].val # <<"0">>

(* C28 as amended: a version returned by ChocoVersion::parse, with no build  *)
(* and a pre_release that is empty or labels of letters followed by numbers  *)
(* greater than 0, comes back from the conversion to semver and back with    *)
(* its major, minor, patch (0 when unset) and pre_release.                   *)
C28_RoundTripOfLabelsThenNumbers ==
    (/\ RoundTripped
     /\ old.val \in ParsedVersions
     /\ ~old.val.build.some
     /\ LabelsThenPositive(old.val.pre_release)) =>
        /\ ver.val.major = old.val.major
        /\ ver.val.minor = old.val.minor
        /\ ver.val.patch = Some(PatchOr0(old.val))
        /\ ver.val.pre_release = old.val.pre_release

\* The version parsed from "4.2.1-alpha54.2" went to semver and back.
C28_Witness ==
    /\ RoundTripped
    /\ old.val = parse(S421_alpha54_d2).val
    /\ input = S421_alpha_54_2
    /\ Len(ver.val.pre_release) = 3

\* What tells two ChocoVersions apart: major, minor, patch (0 when unset),
\* build and pre_release.
KeyOf(v) == <<v.major, v.minor, PatchOr0(v), v.build, v.pre_release>>

\* Every number of the pre_release of v and its build are greater than 0.
AllPositive(v) ==
    /\ NumbersPositive(v.pre_release)
    /\ v.build.some => v.build.val # <<"0">>

\* The parsed versions with their numbers greater than 0, each with the
\* string its conversion to semver assembles.
SemverImage ==
    {<<semver_string(v), KeyOf(v)>> : v \in {w \in ParsedVersions : AllPositive(w)}}

(* C29: two versions returned by ChocoVersion::parse whose numbers are all   *)
(* greater than 0 and that differ in major, minor, patch (0 when unset),     *)
(* build or pre_release are never converted to the same semver string.       *)
C29_ToSemverInjective ==
    (ToSemverDone /\ old.val \in ParsedVersions /\ AllPositive(old.val)) =>
        \A p \in SemverImage : p[1] = input => p[2] = KeyOf(old.val)

\* The pre_release of v is empty or labels of letters followed by numbers
\* greater than 0, and a build, greater than 0, comes with an empty
\* pre_release or with one that ends in a number.
Unambiguous(v) ==
    /\ LabelsThenPositive(v.pre_release)
    /\ v.build.some =>
          /\ v.build.val # <<"0">>
          /\ \/ v.pre_release = <<>>
             \/ v.pre_release[Len(v.pre_release)].tag = "Numeric"

\* The parsed versions of that kind, each with the string its conversion to
\* semver assembles.
UnambiguousImage ==
    {<<semver_string(v), KeyOf(v)>> : v \in {w \in ParsedVersions : Unambiguous(w)}}

(* C29 as amended: two versions returned by ChocoVersion::parse whose        *)
(* pre_release is empty or labels of letters followed by numbers greater     *)
(* than 0, whose build, when set, is greater than 0 and comes with an empty  *)
(* pre_release or one ending in a number, and that differ in major, minor,   *)
(* patch (0 when unset), build or pre_release are never converted to the     *)
(* same semver string.                                                       *)
C29_InjectiveWhenUnambiguous ==
    (ToSemverDone /\ old.val \in ParsedVersions /\ Unambiguous(old.val)) =>
        \A p \in UnambiguousImage : p[1] = input => p[2] = KeyOf(old.val)

\* A version with a label, a number and a build was converted, and another
\* parsed version has the same label and number and no build.
C29_Witness ==
    /\ ToSemverDone /\ old.val \in ParsedVersions /\ Unambiguous(old.val)
    /\ old.val.build.some /\ Len(old.val.pre_release) = 2
    /\ \E p \in UnambiguousImage :
          /\ p[1] # input
          /\ p[2] = KeyOf([old.val EXCEPT !.build = None])

-----------------------------------------------------------------------------
(* add_fix called again *)

(* C30: with the date at or after 2007-01-01, a call of add_fix that follows *)
(* a call of add_fix leaves the version as the first call left it, and every *)
(* call of add_fix keeps the major, the minor and the pre_release of the     *)
(* version and reports no error.                                             *)
C30_AddFixIdempotent ==
    [][(ver.some /\ op' = "add_fix" /\ ~Below(today)) =>
          /\ ver'.some /\ err' = ""
          /\ ver'.val.major = ver.val.major
          /\ ver'.val.minor = ver.val.minor
          /\ ver'.val.pre_release = ver.val.pre_release
          /\ (op = "add_fix" => ver' = ver)]_vars

\* add_fix was called on a version that add_fix had stamped with today's
\* date, and left it as it was.
C30_Witness ==
    /\ AfterAddFix /\ ~Below(today)
    /\ old = ver
    /\ ver.val.build = Some(today)
    /\ ver.val.pre_release # <<>>

====
